---------------------------- MODULE Spec2Model ----------------------------
(***************************************************************************)
(* AVL tree of PachiSystems/JSAVLTree.                                     *)
(*                                                                         *)
(* The repository holds two revisions of the tree: src/JSAVLTree.js and    *)
(* src/unnamed/part_001.  They differ, as far as behaviour goes, in one    *)
(* place: the choice of the replacement node in node removal.  The         *)
(* variable `variant' says which revision a behaviour runs.                *)
(*                                                                         *)
(* Nodes are JavaScript objects.  The heap is the function `nodes' from    *)
(* node names to the fields of the object; NULL stands for both null and   *)
(* undefined (the code only tests them for falsiness and with == / !=).    *)
(* An object that is no longer referenced is collected: its name maps to   *)
(* NoNode again.                                                           *)
(*                                                                         *)
(* The values are numbers, ordered by the comparator a - b.  The number k  *)
(* of the model stands for the program's number k - Zero, so that 1..MaxVal*)
(* holds numbers below 0, 0 itself and numbers above 0.  The comparator    *)
(* does not see the shift; the one other thing the code does with a value, *)
(* testing it for truth in "if (startValue)", is false on Zero.            *)
(***************************************************************************)
EXTENDS Integers, Sequences, FiniteSets

VARIABLES
    variant,    \* which revision of the source runs
    root,       \* AVLTree.prototype._root
    minNode,    \* AVLTree.prototype._minNode
    maxNode,    \* AVLTree.prototype._maxNode
    nodes,      \* the heap: node name -> fields of the AVLTree.Node object
    stored,     \* history: the values added and not removed since
    throws,     \* history: number of removes that ended in a TypeError
    lastOp,     \* the last public call: "none", "add", "remove", "clear",
                \* "getNthValue", "inOrderTraverse", "reverseOrderTraverse"
    lastArg,    \* its argument (NULL when it has none)
    lastRet     \* what it returned; THREW when it raised an exception

vars == <<variant, root, minNode, maxNode, nodes, stored, throws,
          lastOp, lastArg, lastRet>>

(***************************************************************************)
(* Bounds.                                                                 *)
(***************************************************************************)
MaxVal == 6          \* the values are 1..MaxVal
Zero == 2            \* the number that stands for the program's 0
MaxThrows == 1       \* removes that raise a TypeError, per behaviour
Spare == 1           \* node names beyond one per value
Fuel == 40           \* steps allowed to the stackless traversal loop

Values == 1..MaxVal
NodeIds == 1..(MaxVal + Spare)
NULL == 0
THREW == -1
Variants == {"JSAVLTree", "part_001"}

NoNode == [value |-> 0, parent |-> NULL, left |-> NULL, right |-> NULL,
           count |-> 0, height |-> 0]

Max(a, b) == IF a >= b THEN a ELSE b

\* The comparator handed to the constructor: the numeric one the README
\* recommends ("for numbers, you can simply return a-b").
comparator(a, b) == a - b

\* The tree handle and the heap as one value, for the operators below.
Tree == [root |-> root, minNode |-> minNode, maxNode |-> maxNode,
         nodes |-> nodes]

EmptyTree == [root |-> NULL, minNode |-> NULL, maxNode |-> NULL,
              nodes |-> [i \in NodeIds |-> NoNode]]

\* new AVLTree.Node(value, parent): count 1, and from the prototype
\* _left = _right = null and height = 1.
Node(value, parent) ==
    [value |-> value, parent |-> parent, left |-> NULL, right |-> NULL,
     count |-> 1, height |-> 1]

\* The name of the object `new' returns: the value it is built with
\* when that name is free, the least free name otherwise (NULL: heap full).
NewId(t, value) ==
    IF t.nodes[value] = NoNode THEN value
    ELSE IF \E i \in NodeIds : t.nodes[i] = NoNode
         THEN CHOOSE i \in NodeIds :
                  /\ t.nodes[i] = NoNode
                  /\ \A j \in NodeIds : t.nodes[j] = NoNode => i <= j
         ELSE NULL

isRightChild(t, node) ==
    /\ t.nodes[node].parent # NULL
    /\ t.nodes[t.nodes[node].parent].right = node

isLeftChild(t, node) ==
    /\ t.nodes[node].parent # NULL
    /\ t.nodes[t.nodes[node].parent].left = node

\* node ? node.height : 0
heightOf(t, node) == IF node # NULL THEN t.nodes[node].height ELSE 0

\* node ? node.count : 0
countOf(t, node) == IF node # NULL THEN t.nodes[node].count ELSE 0

(***************************************************************************)
(* Rotations.                                                              *)
(***************************************************************************)
\* "if (child != null) child._parent = parent"
setParent(t, child, parent) ==
    IF child # NULL THEN [t EXCEPT !.nodes[child].parent = parent] ELSE t

\* "Re-assign parent-child references for the parent of the node": the
\* node rotated up, temp, takes the place of node under node's parent
rotateParent(t, node, temp) ==
    IF isLeftChild(t, node)
    THEN [t EXCEPT !.nodes[t.nodes[node].parent].left = temp,
                   !.nodes[temp].parent = t.nodes[node].parent]
    ELSE IF isRightChild(t, node)
    THEN [t EXCEPT !.nodes[t.nodes[node].parent].right = temp,
                   !.nodes[temp].parent = t.nodes[node].parent]
    ELSE [t EXCEPT !.root = temp, !.nodes[temp].parent = NULL]

\* node._right = node._right._left; if (node._right != null) ... = node
leftRotateInner_dropsSubtree(t, node, temp) ==
    [t EXCEPT !.nodes[node].right = NULL]

leftRotateInner(t, node, temp) ==
    setParent([t EXCEPT !.nodes[node].right = t.nodes[temp].left],
              t.nodes[temp].left, node)

\* temp._left = node; node._parent = temp
leftRotateLink(t, node, temp) ==
    [t EXCEPT !.nodes[temp].left = node, !.nodes[node].parent = temp]

\* an update that forgets the node rotated up when it shrinks the count
leftRotateCounts_offByOne(t, node, temp) ==
    [t EXCEPT !.nodes[temp].count = t.nodes[node].count,
              !.nodes[node].count = @ - countOf(t, t.nodes[temp].right)]

\* "Update counts" of _leftRotate
leftRotateCounts(t, node, temp) ==
    [t EXCEPT !.nodes[temp].count = t.nodes[node].count,
              !.nodes[node].count =
                  @ - (countOf(t, t.nodes[temp].right) + 1)]

leftRotate(t, node) ==
    leftRotateCounts(
        leftRotateLink(
            leftRotateInner(rotateParent(t, node, t.nodes[node].right),
                            node, t.nodes[node].right),
            node, t.nodes[node].right),
        node, t.nodes[node].right)

\* a right rotation that hands the subtree over without telling it
rightRotateInner_parentKept(t, node, temp) ==
    [t EXCEPT !.nodes[node].left = t.nodes[temp].right]

\* node._left = node._left._right; if (node._left != null) ... = node
rightRotateInner(t, node, temp) ==
    setParent([t EXCEPT !.nodes[node].left = t.nodes[temp].right],
              t.nodes[temp].right, node)

\* temp._right = node; node._parent = temp
rightRotateLink(t, node, temp) ==
    [t EXCEPT !.nodes[temp].right = node, !.nodes[node].parent = temp]

\* "Update counts" of _rightRotate
rightRotateCounts(t, node, temp) ==
    [t EXCEPT !.nodes[temp].count = t.nodes[node].count,
              !.nodes[node].count =
                  @ - (countOf(t, t.nodes[temp].left) + 1)]

rightRotate(t, node) ==
    rightRotateCounts(
        rightRotateLink(
            rightRotateInner(rotateParent(t, node, t.nodes[node].left),
                             node, t.nodes[node].left),
            node, t.nodes[node].left),
        node, t.nodes[node].left)

(***************************************************************************)
(* The balancer: one visit of the traversal function, then the walk.       *)
(***************************************************************************)
\* a test that also asks for a double rotation when the two heights tie
leftNeedsDouble_onTie(t, l) ==
    /\ t.nodes[l].right # NULL
    /\ \/ t.nodes[l].left = NULL
       \/ t.nodes[t.nodes[l].left].height <= t.nodes[t.nodes[l].right].height

\* the test that sends a left-heavy node through a double rotation
leftNeedsDouble(t, l) ==
    /\ t.nodes[l].right # NULL
    /\ \/ t.nodes[l].left = NULL
       \/ t.nodes[t.nodes[l].left].height < t.nodes[t.nodes[l].right].height

\* the test that sends a right-heavy node through a double rotation
rightNeedsDouble(t, r) ==
    /\ t.nodes[r].left # NULL
    /\ \/ t.nodes[r].right = NULL
       \/ t.nodes[t.nodes[r].right].height < t.nodes[t.nodes[r].left].height

\* "Recalculate the left and right node's heights", "Set this node's height"
setHeight(t, node) ==
    [t EXCEPT !.nodes[node].height =
         Max(heightOf(t, t.nodes[node].left),
             heightOf(t, t.nodes[node].right)) + 1]

\* "Rotate tree rooted at this node if it is not AVL-tree balanced"
rotateIfUnbalanced(t, node, leftHeight, rightHeight) ==
    IF leftHeight - rightHeight > 1
    THEN rightRotate(IF leftNeedsDouble(t, t.nodes[node].left)
                     THEN leftRotate(t, t.nodes[node].left)
                     ELSE t, node)
    ELSE IF rightHeight - leftHeight > 1
    THEN leftRotate(IF rightNeedsDouble(t, t.nodes[node].right)
                    THEN rightRotate(t, t.nodes[node].right)
                    ELSE t, node)
    ELSE t

\* the traversal function of _balance, called on `node'
balanceVisit(t, node) ==
    setHeight(rotateIfUnbalanced(t, node,
                                 heightOf(t, t.nodes[node].left),
                                 heightOf(t, t.nodes[node].right)),
              node)

\* _traverse with that function: "return node._parent" until null
RECURSIVE balanceFrom(_, _)
balanceUp(t, node) == balanceFrom(t, t.nodes[node].parent)

balanceFrom(t, node) ==
    IF node = NULL THEN t ELSE balanceUp(balanceVisit(t, node), node)

\* _traverse(f, startNode): a falsy startNode means "start at the root"
traverseStart(t, startNode) == IF startNode # NULL THEN startNode ELSE t.root

balance(t, node) == balanceFrom(t, traverseStart(t, node))

\* _traverse(function(node) { node.count += d; return node._parent; }, start)
RECURSIVE countsFrom(_, _, _)
countsFrom(t, node, d) ==
    IF node = NULL THEN t
    ELSE countsFrom([t EXCEPT !.nodes[node].count = @ + d],
                    t.nodes[node].parent, d)

updateCounts_startOnly(t, startNode, d) ==
    [t EXCEPT !.nodes[traverseStart(t, startNode)].count = @ + d]

updateCounts(t, startNode, d) == countsFrom(t, traverseStart(t, startNode), d)

(***************************************************************************)
(* add                                                                     *)
(***************************************************************************)
\* node._right = newNode, and the max cache follows
attachRight_noMax(t, node, id, value) ==
    [t EXCEPT !.nodes[id] = Node(value, node),
              !.nodes[node].right = id]

attachRight(t, node, id, value) ==
    [t EXCEPT !.nodes[id] = Node(value, node),
              !.nodes[node].right = id,
              !.maxNode = IF node = t.maxNode THEN id ELSE @]

\* node._left = newNode, and the min cache follows
attachLeft_wrongSide(t, node, id, value) ==
    IF t.nodes[node].right = NULL
    THEN attachRight(t, node, id, value)
    ELSE [t EXCEPT !.nodes[id] = Node(value, node),
                   !.nodes[node].left = id,
                   !.minNode = IF node = t.minNode THEN id ELSE @]

attachLeft(t, node, id, value) ==
    [t EXCEPT !.nodes[id] = Node(value, node),
              !.nodes[node].left = id,
              !.minNode = IF node = t.minNode THEN id ELSE @]

\* The traversal function of add, called on `node': the tree after the
\* call, the node it created (if any) and the node it returns (retNode).
addStep_equalGoesRight(t, node, value) ==
    IF comparator(t.nodes[node].value, value) > 0
    THEN IF t.nodes[node].left = NULL
         THEN [t |-> attachLeft(t, node, NewId(t, value), value),
               newNode |-> NewId(t, value), retNode |-> NULL]
         ELSE [t |-> t, newNode |-> NULL, retNode |-> t.nodes[node].left]
    ELSE IF comparator(t.nodes[node].value, value) <= 0
    THEN IF t.nodes[node].right = NULL
         THEN [t |-> attachRight(t, node, NewId(t, value), value),
               newNode |-> NewId(t, value), retNode |-> NULL]
         ELSE [t |-> t, newNode |-> NULL, retNode |-> t.nodes[node].right]
    ELSE [t |-> t, newNode |-> NULL, retNode |-> NULL]

addStep(t, node, value) ==
    IF comparator(t.nodes[node].value, value) > 0
    THEN IF t.nodes[node].left = NULL
         THEN [t |-> attachLeft(t, node, NewId(t, value), value),
               newNode |-> NewId(t, value), retNode |-> NULL]
         ELSE [t |-> t, newNode |-> NULL, retNode |-> t.nodes[node].left]
    ELSE IF comparator(t.nodes[node].value, value) < 0
    THEN IF t.nodes[node].right = NULL
         THEN [t |-> attachRight(t, node, NewId(t, value), value),
               newNode |-> NewId(t, value), retNode |-> NULL]
         ELSE [t |-> t, newNode |-> NULL, retNode |-> t.nodes[node].right]
    ELSE [t |-> t, newNode |-> NULL, retNode |-> NULL]

\* _traverse with that function: the tree after the descent and the node
\* it created, if any
RECURSIVE addDescend(_, _, _)
addContinue(st, value) ==
    IF st.retNode = NULL THEN [t |-> st.t, newNode |-> st.newNode]
    ELSE addDescend(st.t, st.retNode, value)

addDescend(t, node, value) ==
    IF node = NULL THEN [t |-> t, newNode |-> NULL]
    ELSE addContinue(addStep(t, node, value), value)

\* this._balance(newNode._parent)
balanceParent(t, newNode) == balance(t, t.nodes[newNode].parent)

\* "if (newNode)": increment the counts, balance from the parent
addFinish(t, newNode) ==
    balanceParent(updateCounts(t, t.nodes[newNode].parent, 1), newNode)

\* what add does and returns once the descent d is over
addOutcome_countsAnyway(d) ==
    IF d.newNode # NULL
    THEN [t |-> addFinish(d.t, d.newNode), ret |-> TRUE]
    ELSE [t |-> updateCounts(d.t, d.t.root, 1), ret |-> FALSE]

addOutcome(d) ==
    IF d.newNode # NULL
    THEN [t |-> addFinish(d.t, d.newNode), ret |-> TRUE]
    ELSE [t |-> d.t, ret |-> FALSE]

\* "If the tree is empty, create a root node with the specified value"
addRoot(t, id, value) ==
    [t EXCEPT !.nodes[id] = Node(value, NULL),
              !.root = id, !.minNode = id, !.maxNode = id]

add(t, value) ==
    IF t.root = NULL
    THEN [t |-> addRoot(t, NewId(t, value), value), ret |-> TRUE]
    ELSE addOutcome(addDescend(t, t.root, value))

(***************************************************************************)
(* remove                                                                  *)
(***************************************************************************)
RECURSIVE minDescend(_, _)
minDescend(t, node) ==
    IF t.nodes[node].left # NULL THEN minDescend(t, t.nodes[node].left)
    ELSE node

RECURSIVE maxDescend(_, _)
maxDescend(t, node) ==
    IF t.nodes[node].right # NULL THEN maxDescend(t, t.nodes[node].right)
    ELSE node

getMinNode(t, rootNode) ==
    IF rootNode = NULL THEN t.minNode ELSE minDescend(t, rootNode)

getMaxNode_noDescent(t, rootNode) ==
    IF rootNode = NULL THEN t.maxNode ELSE rootNode

getMaxNode(t, rootNode) ==
    IF rootNode = NULL THEN t.maxNode ELSE maxDescend(t, rootNode)

\* The value of the local variable the removal works with, given the node
\* _getMaxNode / _getMinNode returned.  src/unnamed/part_001 declares `r'
\* and assigns it.  src/JSAVLTree.js declares `replacementNode' but assigns
\* the result to `r' (an implicit global): replacementNode stays undefined.
replacementNode(found) == IF variant = "part_001" THEN found ELSE NULL

\* a clear that drops the root and keeps the caches of the minimum and the
\* maximum
clear_rootOnly(t) == [t EXCEPT !.root = NULL]

clear(t) == EmptyTree

\* whether some live reference to the object `node' is left
referenced(t, node) ==
    \/ node \in {t.root, t.minNode, t.maxNode}
    \/ \E i \in NodeIds \ {node} :
          /\ t.nodes[i] # NoNode
          /\ node \in {t.nodes[i].parent, t.nodes[i].left, t.nodes[i].right}

\* garbage collection of the removed node object
collect(t, node) ==
    IF referenced(t, node) THEN t ELSE [t EXCEPT !.nodes[node] = NoNode]

\* a detachment that leaves the child's parent link as it was
detachFromRight_parentKept(t, r) ==
    [t EXCEPT !.nodes[t.nodes[r].parent].right = t.nodes[r].left]

\* replacementNode._parent._right = replacementNode._left, and that
\* child's parent link
detachFromRight(t, r) ==
    setParent([t EXCEPT !.nodes[t.nodes[r].parent].right = t.nodes[r].left],
              t.nodes[r].left, t.nodes[r].parent)

\* replacementNode._left = node._left; replacementNode._left._parent = ...
adoptLeft(t, node, r) ==
    [t EXCEPT !.nodes[r].left = t.nodes[node].left,
              !.nodes[t.nodes[node].left].parent = r]

\* "if (replacementNode != node._left) { ... }"
spliceFromLeft(t, node, r) ==
    IF r # t.nodes[node].left
    THEN adoptLeft(detachFromRight(t, r), node, r)
    ELSE t

\* replacementNode._parent._left = replacementNode._right, and that
\* child's parent link
detachFromLeft(t, r) ==
    setParent([t EXCEPT !.nodes[t.nodes[r].parent].left = t.nodes[r].right],
              t.nodes[r].right, t.nodes[r].parent)

\* replacementNode._right = node._right; replacementNode._right._parent = ...
adoptRight(t, node, r) ==
    [t EXCEPT !.nodes[r].right = t.nodes[node].right,
              !.nodes[t.nodes[node].right].parent = r]

\* "if (replacementNode != node._right) { ... }"
spliceFromRight(t, node, r) ==
    IF r # t.nodes[node].right
    THEN adoptRight(detachFromLeft(t, r), node, r)
    ELSE t

\* a graft in which the replacement keeps its own count
graftLeftCase_ownCount(t, node, r) ==
    [setParent([t EXCEPT !.nodes[r].parent = t.nodes[node].parent,
                         !.nodes[r].right = t.nodes[node].right],
               t.nodes[node].right, r)
        EXCEPT !.maxNode = IF node = t.maxNode THEN r ELSE @]

\* the replacement takes the removed node's parent, right child and count,
\* and the max cache when the removed node was the maximum
graftLeftCase(t, node, r) ==
    [setParent([t EXCEPT !.nodes[r].parent = t.nodes[node].parent,
                         !.nodes[r].right = t.nodes[node].right],
               t.nodes[node].right, r)
        EXCEPT !.maxNode = IF node = t.maxNode THEN r ELSE @,
               !.nodes[r].count = t.nodes[node].count]

\* the replacement takes the removed node's parent, left child and count,
\* and the min cache when the removed node was the minimum
graftRightCase(t, node, r) ==
    [setParent([t EXCEPT !.nodes[r].parent = t.nodes[node].parent,
                         !.nodes[r].left = t.nodes[node].left],
               t.nodes[node].left, r)
        EXCEPT !.minNode = IF node = t.minNode THEN r ELSE @,
               !.nodes[r].count = t.nodes[node].count]

\* "Update the parent of the node being removed to point to its replace"
redirectParent_rootKept(t, node, r) ==
    IF isLeftChild(t, node)
    THEN [t EXCEPT !.nodes[t.nodes[node].parent].left = r]
    ELSE IF isRightChild(t, node)
    THEN [t EXCEPT !.nodes[t.nodes[node].parent].right = r]
    ELSE t

redirectParent(t, node, r) ==
    IF isLeftChild(t, node)
    THEN [t EXCEPT !.nodes[t.nodes[node].parent].left = r]
    ELSE IF isRightChild(t, node)
    THEN [t EXCEPT !.nodes[t.nodes[node].parent].right = r]
    ELSE [t EXCEPT !.root = r]

\* balanceBegin ? balanceBegin : replacementNode, where balanceBegin is
\* the replacement's old parent unless the replacement was node's child
balanceStart(t, child, r) ==
    IF r # child /\ t.nodes[r].parent # NULL THEN t.nodes[r].parent ELSE r

\* the tree of the branch "if (node._left != null)" when it calls _balance
graftedFromLeft(t, node, r) ==
    redirectParent(graftLeftCase(spliceFromLeft(t, node, r), node, r),
                   node, r)

\* the tree of the branch "else" when it calls _balance
graftedFromRight(t, node, r) ==
    redirectParent(graftRightCase(spliceFromRight(t, node, r), node, r),
                   node, r)

\* the branch "if (node._left != null)" once the counts are updated
replaceFromLeft(t, node, r) ==
    balance(graftedFromLeft(t, node, r),
            balanceStart(t, t.nodes[node].left, r))

\* the branch "else" (only a right child) once the counts are updated
replaceFromRight(t, node, r) ==
    balance(graftedFromRight(t, node, r),
            balanceStart(t, t.nodes[node].right, r))

\* Removal of a node that has a child, r being the value of the variable
\* replacementNode.  With r undefined the count traversal starts at the
\* root and replacementNode._parent raises a TypeError.
removeWith(t, node, r) ==
    IF r = NULL
    THEN [t |-> updateCounts(t, r, -1), threw |-> TRUE]
    ELSE IF t.nodes[node].left # NULL
    THEN [t |-> replaceFromLeft(updateCounts(t, r, -1), node, r),
          threw |-> FALSE]
    ELSE [t |-> replaceFromRight(updateCounts(t, r, -1), node, r),
          threw |-> FALSE]

removeInner(t, node) ==
    removeWith(t, node,
               replacementNode(IF t.nodes[node].left # NULL
                               THEN getMaxNode(t, t.nodes[node].left)
                               ELSE getMinNode(t, t.nodes[node].right)))

\* node._parent._left = null, and the min cache moves to the parent
unlinkLeft(t, node, p) ==
    [t EXCEPT !.nodes[p].left = NULL,
              !.minNode = IF node = t.minNode THEN p ELSE @]

\* node._parent._right = null, and the max cache moves to the parent
unlinkRight(t, node, p) ==
    [t EXCEPT !.nodes[p].right = NULL,
              !.maxNode = IF node = t.maxNode THEN p ELSE @]

\* a leaf removal that does nothing for a node that is no one's child
detachLeaf_noClear(t, node, p) ==
    IF isLeftChild(t, node) THEN balance(unlinkLeft(t, node, p), p)
    ELSE IF isRightChild(t, node) THEN balance(unlinkRight(t, node, p), p)
    ELSE t

\* "If the node is a leaf, remove it and balance starting from its parent"
detachLeaf(t, node, p) ==
    IF isLeftChild(t, node) THEN balance(unlinkLeft(t, node, p), p)
    ELSE IF isRightChild(t, node) THEN balance(unlinkRight(t, node, p), p)
    ELSE clear(t)

\* removal of a leaf
removeLeaf(t, node) ==
    detachLeaf(updateCounts(t, t.nodes[node].parent, -1), node,
               t.nodes[node].parent)

removeNode(t, node) ==
    IF t.nodes[node].left # NULL \/ t.nodes[node].right # NULL
    THEN removeInner(t, node)
    ELSE [t |-> removeLeaf(t, node), threw |-> FALSE]

\* what remove(value) returns once _removeNode(node) is over
removeOutcome(rm, node, retValue) ==
    IF rm.threw
    THEN [t |-> rm.t, ret |-> THREW, threw |-> TRUE]
    ELSE [t |-> collect(rm.t, node), ret |-> retValue, threw |-> FALSE]

\* the descent of remove
RECURSIVE removeDescend(_, _, _)
removeDescend(t, node, value) ==
    IF node = NULL THEN [t |-> t, ret |-> NULL, threw |-> FALSE]
    ELSE IF comparator(t.nodes[node].value, value) > 0
    THEN removeDescend(t, t.nodes[node].left, value)
    ELSE IF comparator(t.nodes[node].value, value) < 0
    THEN removeDescend(t, t.nodes[node].right, value)
    ELSE removeOutcome(removeNode(t, node), node, t.nodes[node].value)

\* a remove that takes one off the size of the tree also when the value is
\* not found
remove_missCounts(t, value) ==
    IF removeDescend(t, t.root, value).ret # NULL
    THEN removeDescend(t, t.root, value)
    ELSE [t |-> updateCounts(t, t.root, -1), ret |-> NULL, threw |-> FALSE]

remove(t, value) == removeDescend(t, t.root, value)

(***************************************************************************)
(* Queries.                                                                *)
(***************************************************************************)
RECURSIVE containsDescend(_, _, _)
containsDescend(t, node, value) ==
    IF node = NULL THEN FALSE
    ELSE IF comparator(t.nodes[node].value, value) > 0
    THEN containsDescend(t, t.nodes[node].left, value)
    ELSE IF comparator(t.nodes[node].value, value) < 0
    THEN containsDescend(t, t.nodes[node].right, value)
    ELSE TRUE

contains(t, value) == containsDescend(t, t.root, value)

getCount(t) == IF t.root # NULL THEN t.nodes[t.root].count ELSE 0

getHeight(t) == IF t.root # NULL THEN t.nodes[t.root].height ELSE 0

\* getMinimum: `return this._getMinNode().value'.  Without an argument
\* _getMinNode returns the cached node, which is null in an empty tree; the
\* read of `.value' on null raises a TypeError.
getMinimum(t) ==
    IF getMinNode(t, NULL) = NULL THEN THREW
    ELSE t.nodes[getMinNode(t, NULL)].value

\* getMaximum: `return this._getMaxNode().value'
getMaximum(t) ==
    IF getMaxNode(t, NULL) = NULL THEN THREW
    ELSE t.nodes[getMaxNode(t, NULL)].value

\* An optional argument is <<>> when absent and <<v>> when given.
\* "if (startValue)": absent and 0 are both falsy.
truthy(arg) == arg # <<>> /\ arg[1] # Zero

\* the descent that looks for the node the in-order traversal starts at
RECURSIVE inOrderStart(_, _, _, _)
inOrderStart(t, node, startValue, startNode) ==
    IF node = NULL THEN startNode
    ELSE IF comparator(t.nodes[node].value, startValue) > 0
    THEN inOrderStart(t, t.nodes[node].left, startValue, node)
    ELSE IF comparator(t.nodes[node].value, startValue) < 0
    THEN inOrderStart(t, t.nodes[node].right, startValue, startNode)
    ELSE node

\* "node._left != null && node._left != previous && node._right != previous"
inOrderGoesDown(t, node, previous) ==
    /\ t.nodes[node].left # NULL
    /\ t.nodes[node].left # previous
    /\ t.nodes[node].right # previous

\* a step that enters the right subtree again when it comes back from it
inOrderNext_rightAgain(t, node, previous) ==
    IF t.nodes[node].right # NULL
    THEN t.nodes[node].right
    ELSE t.nodes[node].parent

\* the node the loop moves to after it handled `node'
inOrderNext(t, node, previous) ==
    IF t.nodes[node].right # NULL /\ t.nodes[node].right # previous
    THEN t.nodes[node].right
    ELSE t.nodes[node].parent

\* The while loop.  func returns true on the values in `stop'.  The result
\* is the sequence of values func was called with; `timeout' says the loop
\* was still running when the fuel ran out.
RECURSIVE inOrderLoop(_, _, _, _, _, _)
inOrderLoop(t, node, previous, stop, visited, fuel) ==
    IF node = NULL THEN [visited |-> visited, threw |-> FALSE,
                         timeout |-> FALSE]
    ELSE IF fuel = 0 THEN [visited |-> visited, threw |-> FALSE,
                           timeout |-> TRUE]
    ELSE IF inOrderGoesDown(t, node, previous)
    THEN inOrderLoop(t, t.nodes[node].left, previous, stop, visited, fuel - 1)
    ELSE LET calls == t.nodes[node].right # previous
             seen  == IF calls THEN Append(visited, t.nodes[node].value)
                      ELSE visited
         IN IF calls /\ t.nodes[node].value \in stop
            THEN [visited |-> seen, threw |-> FALSE, timeout |-> FALSE]
            ELSE inOrderLoop(t, inOrderNext(t, node, previous), node, stop,
                             seen, fuel - 1)

\* "var node = startNode, previous = startNode._left ? ... : startNode"
\* and the loop; startNode._left raises a TypeError on an undefined startNode
inOrderFrom(t, stop, startNode) ==
    IF startNode = NULL
    THEN [visited |-> <<>>, threw |-> TRUE, timeout |-> FALSE]
    ELSE inOrderLoop(t, startNode,
                     IF t.nodes[startNode].left # NULL
                     THEN t.nodes[startNode].left ELSE startNode,
                     stop, <<>>, Fuel)

inOrderTraverse(t, stop, startValue) ==
    IF t.root = NULL
    THEN [visited |-> <<>>, threw |-> FALSE, timeout |-> FALSE]
    ELSE inOrderFrom(t, stop,
                     IF truthy(startValue)
                     THEN inOrderStart(t, t.root, startValue[1], NULL)
                     ELSE getMinNode(t, NULL))

\* getValues: the callback pushes the value and returns undefined
getValues(t) == inOrderTraverse(t, {}, <<>>)

\* "var root = rootNode || this._root"
nthRoot(t, rootNode) == IF rootNode # NULL THEN rootNode ELSE t.root

\* _getNthNode(n, rootNode).  The result is THREW when the call dereferences
\* a null root or still recurses when the fuel is gone.
RECURSIVE getNthNode(_, _, _, _)
getNthNode(t, n, rootNode, fuel) ==
    IF nthRoot(t, rootNode) = NULL \/ fuel = 0 THEN THREW
    ELSE IF n < countOf(t, t.nodes[nthRoot(t, rootNode)].left)
    THEN getNthNode(t, n, t.nodes[nthRoot(t, rootNode)].left, fuel - 1)
    ELSE IF n = countOf(t, t.nodes[nthRoot(t, rootNode)].left)
    THEN nthRoot(t, rootNode)
    ELSE getNthNode(t,
                    n - countOf(t, t.nodes[nthRoot(t, rootNode)].left) - 1,
                    t.nodes[nthRoot(t, rootNode)].right, fuel - 1)

\* "this._getNthNode(n).value"
nthValue(t, node) == IF node = THREW THEN THREW ELSE t.nodes[node].value

\* a getNthValue whose upper bound check is "n > this.getCount()"
getNthValue_offByOne(t, n) ==
    IF n < 0 \/ n > getCount(t) THEN NULL
    ELSE nthValue(t, getNthNode(t, n, NULL, Fuel))

getNthValue(t, n) ==
    IF n < 0 \/ n >= getCount(t) THEN NULL
    ELSE nthValue(t, getNthNode(t, n, NULL, Fuel))

\* BIND(fn, selfObj) as reverseOrderTraverse calls it.  In src/JSAVLTree.js
\* the third formal parameter of BIND is named `arguments': it hides the
\* arguments object and is undefined in a call with two arguments, so
\* "arguments.length" raises a TypeError.  src/unnamed/part_001 names the
\* parameter var_args, and BIND returns the bound function.
BINDRaises == variant = "JSAVLTree"

\* the descent that looks for the node the reverse traversal starts at
RECURSIVE reverseStart(_, _, _, _)
reverseStart(t, node, startValue, startNode) ==
    IF node = NULL THEN startNode
    ELSE IF comparator(t.nodes[node].value, startValue) > 0
    THEN reverseStart(t, t.nodes[node].left, startValue, startNode)
    ELSE IF comparator(t.nodes[node].value, startValue) < 0
    THEN reverseStart(t, t.nodes[node].right, startValue, node)
    ELSE node

\* "node._right != null && node._right != prev && node._left != prev"
reverseGoesDown(t, node, prev) ==
    /\ t.nodes[node].right # NULL
    /\ t.nodes[node].right # prev
    /\ t.nodes[node].left # prev

\* the node the loop moves to after it handled `node'
reverseNext(t, node, prev) ==
    IF t.nodes[node].left # NULL /\ t.nodes[node].left # prev
    THEN t.nodes[node].left
    ELSE t.nodes[node].parent

\* The while loop of reverseOrderTraverse, with the result of inOrderLoop.
RECURSIVE reverseLoop(_, _, _, _, _, _)
reverseLoop(t, node, prev, stop, visited, fuel) ==
    IF node = NULL THEN [visited |-> visited, threw |-> FALSE,
                         timeout |-> FALSE]
    ELSE IF fuel = 0 THEN [visited |-> visited, threw |-> FALSE,
                           timeout |-> TRUE]
    ELSE IF reverseGoesDown(t, node, prev)
    THEN reverseLoop(t, t.nodes[node].right, prev, stop, visited, fuel - 1)
    ELSE LET calls == t.nodes[node].left # prev
             seen  == IF calls THEN Append(visited, t.nodes[node].value)
                      ELSE visited
         IN IF calls /\ t.nodes[node].value \in stop
            THEN [visited |-> seen, threw |-> FALSE, timeout |-> FALSE]
            ELSE reverseLoop(t, reverseNext(t, node, prev), node, stop,
                             seen, fuel - 1)

\* "var node = startNode, prev = startNode._right ? ... : startNode" and
\* the loop; startNode._right raises a TypeError on an undefined startNode
reverseFrom(t, stop, startNode) ==
    IF startNode = NULL
    THEN [visited |-> <<>>, threw |-> TRUE, timeout |-> FALSE]
    ELSE reverseLoop(t, startNode,
                     IF t.nodes[startNode].right # NULL
                     THEN t.nodes[startNode].right ELSE startNode,
                     stop, <<>>, Fuel)

\* the search for the start node, which goes through BIND
reverseBoundStart(t, stop, startValue) ==
    IF BINDRaises
    THEN [visited |-> <<>>, threw |-> TRUE, timeout |-> FALSE]
    ELSE reverseFrom(t, stop, reverseStart(t, t.root, startValue[1], NULL))

\* a reverse traversal that goes on whatever func returns
reverseOrderTraverse_ignoresFunc(t, stop, startValue) ==
    IF t.root = NULL
    THEN [visited |-> <<>>, threw |-> FALSE, timeout |-> FALSE]
    ELSE IF truthy(startValue)
    THEN reverseBoundStart(t, {}, startValue)
    ELSE reverseFrom(t, {}, getMaxNode(t, NULL))

reverseOrderTraverse(t, stop, startValue) ==
    IF t.root = NULL
    THEN [visited |-> <<>>, threw |-> FALSE, timeout |-> FALSE]
    ELSE IF truthy(startValue)
    THEN reverseBoundStart(t, stop, startValue)
    ELSE reverseFrom(t, stop, getMaxNode(t, NULL))

(***************************************************************************)
(* Actions.                                                                *)
(***************************************************************************)
Init ==
    /\ variant \in Variants
    /\ root = NULL
    /\ minNode = NULL
    /\ maxNode = NULL
    /\ nodes = [i \in NodeIds |-> NoNode]
    /\ stored = {}
    /\ throws = 0
    /\ lastOp = "none"
    /\ lastArg = 0
    /\ lastRet = 0

Add(value) ==
    /\ {i \in NodeIds : nodes[i] = NoNode} # {}
    /\ \E r \in {add(Tree, value)} :
          /\ root' = r.t.root
          /\ minNode' = r.t.minNode
          /\ maxNode' = r.t.maxNode
          /\ nodes' = r.t.nodes
          /\ stored' = IF r.ret THEN stored \cup {value} ELSE stored
          /\ lastRet' = r.ret
    /\ lastOp' = "add"
    /\ lastArg' = value
    /\ UNCHANGED <<variant, throws>>

Remove(value) ==
    /\ \E r \in {remove(Tree, value)} :
          /\ r.threw => throws < MaxThrows
          /\ root' = r.t.root
          /\ minNode' = r.t.minNode
          /\ maxNode' = r.t.maxNode
          /\ nodes' = r.t.nodes
          /\ stored' = IF r.ret \notin {NULL, THREW} THEN stored \ {r.ret}
                       ELSE stored
          /\ throws' = IF r.threw THEN throws + 1 ELSE throws
          /\ lastRet' = r.ret
    /\ lastOp' = "remove"
    /\ lastArg' = value
    /\ UNCHANGED variant

Clear ==
    /\ \E t \in {clear(Tree)} :
          /\ root' = t.root
          /\ minNode' = t.minNode
          /\ maxNode' = t.maxNode
          /\ nodes' = t.nodes
    /\ stored' = {}
    /\ lastOp' = "clear"
    /\ lastArg' = 0
    /\ lastRet' = 0
    /\ UNCHANGED <<variant, throws>>

\* the fields of the tree and the record of what it was given
treeVars == <<variant, root, minNode, maxNode, nodes, stored, throws>>

\* the indices getNthValue is called with
NthArgs == (0 - 1)..MaxVal

\* the start values the traversals are called with: NULL for a call
\* without one, or a number up to one above every value
StartArgs == {NULL} \cup 1..(MaxVal + 1)

\* "@param {Object=} startValue": the optional argument of a call
optional(arg) == IF arg = NULL THEN <<>> ELSE <<arg>>

GetNthValue(n) ==
    /\ lastOp' = "getNthValue"
    /\ lastArg' = n
    /\ lastRet' = getNthValue(Tree, n)
    /\ UNCHANGED treeVars

InOrderTraverse(startValue) ==
    /\ lastOp' = "inOrderTraverse"
    /\ lastArg' = startValue
    /\ lastRet' = inOrderTraverse(Tree, {}, optional(startValue))
    /\ UNCHANGED treeVars

ReverseOrderTraverse(startValue) ==
    /\ lastOp' = "reverseOrderTraverse"
    /\ lastArg' = startValue
    /\ lastRet' = reverseOrderTraverse(Tree, {}, optional(startValue))
    /\ UNCHANGED treeVars

\* inOrderTraverse(func) without a start value, with a callback that
\* returns true on the value `stop' and undefined on every other value
InOrderTraverseUntil(stop) ==
    /\ lastOp' = "inOrderTraverse"
    /\ lastArg' = NULL
    /\ lastRet' = inOrderTraverse(Tree, {stop}, <<>>)
    /\ UNCHANGED treeVars

\* reverseOrderTraverse(func) with the same callback
ReverseOrderTraverseUntil(stop) ==
    /\ lastOp' = "reverseOrderTraverse"
    /\ lastArg' = NULL
    /\ lastRet' = reverseOrderTraverse(Tree, {stop}, <<>>)
    /\ UNCHANGED treeVars

GetMinimum ==
    /\ lastOp' = "getMinimum"
    /\ lastArg' = NULL
    /\ lastRet' = getMinimum(Tree)
    /\ UNCHANGED treeVars

GetMaximum ==
    /\ lastOp' = "getMaximum"
    /\ lastArg' = NULL
    /\ lastRet' = getMaximum(Tree)
    /\ UNCHANGED treeVars

Next ==
    \/ \E value \in Values : Add(value)
    \/ \E value \in Values : Remove(value)
    \/ Clear

Spec == Init /\ [][Next]_vars

\* the mutators and the queries, called in any order
NextQ ==
    \/ \E value \in Values : Add(value)
    \/ \E value \in Values : Remove(value)
    \/ Clear
    \/ \E n \in NthArgs : GetNthValue(n)
    \/ \E startValue \in StartArgs : InOrderTraverse(startValue)
    \/ \E startValue \in StartArgs : ReverseOrderTraverse(startValue)

SpecQ == Init /\ [][NextQ]_vars

\* a fresh tree that is only added to
NextAdd == \E value \in Values : Add(value)

SpecAdd == Init /\ [][NextAdd]_vars

\* the mutators and the traversals whose callback ends them early
NextUntil ==
    \/ \E value \in Values : Add(value)
    \/ \E value \in Values : Remove(value)
    \/ Clear
    \/ \E stop \in Values : InOrderTraverseUntil(stop)
    \/ \E stop \in Values : ReverseOrderTraverseUntil(stop)

SpecUntil == Init /\ [][NextUntil]_vars

\* the trees add and remove calls reach
NextAddRemove ==
    \/ \E value \in Values : Add(value)
    \/ \E value \in Values : Remove(value)

SpecAddRemove == Init /\ [][NextAddRemove]_vars

\* the mutators and the two extremum queries
NextMinMax ==
    \/ \E value \in Values : Add(value)
    \/ \E value \in Values : Remove(value)
    \/ Clear
    \/ GetMinimum
    \/ GetMaximum

SpecMinMax == Init /\ [][NextMinMax]_vars


(***************************************************************************)
(* What the properties speak about: the tree as it is linked.              *)
(***************************************************************************)
Depth == MaxVal + Spare + 1

\* the nodes reachable from n along _left and _right
RECURSIVE SubtreeD(_, _, _)
SubtreeD(t, n, d) ==
    IF n = NULL \/ d = 0 THEN {}
    ELSE {n} \cup SubtreeD(t, t.nodes[n].left, d - 1)
             \cup SubtreeD(t, t.nodes[n].right, d - 1)

Subtree(t, n) == SubtreeD(t, n, Depth)

Reachable == Subtree(Tree, root)

TreeValues == {nodes[n].value : n \in Reachable}

\* the longest downward path from n, counted in nodes
RECURSIVE TrueHeightD(_, _, _)
TrueHeightD(t, n, d) ==
    IF n = NULL \/ d = 0 THEN 0
    ELSE 1 + Max(TrueHeightD(t, t.nodes[n].left, d - 1),
                 TrueHeightD(t, t.nodes[n].right, d - 1))

TrueHeight(t, n) == TrueHeightD(t, n, Depth)

Abs(x) == IF x < 0 THEN -x ELSE x

\* 1.4405 * log2(n + 2) - 1.3277 rounded down, for n = 1, 2, ..., 10:
\* 0.9554, 1.5533, 2.0170, 2.3959, 2.7163, 2.9938, 3.2386, 3.4575, 3.6556,
\* 3.8364
heightBound == <<0, 1, 2, 2, 2, 2, 3, 3, 3, 3>>

\* the last call was an add or a remove, and it returned
Returned == lastOp = "add" \/ (lastOp = "remove" /\ lastRet # THREW)

SetOf(seq) == {seq[i] : i \in 1..Len(seq)}

StrictlyAscending(seq) ==
    \A i \in 1..(Len(seq) - 1) : comparator(seq[i], seq[i + 1]) < 0

\* the numbers of the set S from the smallest to the largest
RECURSIVE Ascending(_)
Ascending(S) ==
    IF S = {} THEN <<>>
    ELSE LET m == CHOOSE x \in S : \A y \in S : x <= y
         IN <<m>> \o Ascending(S \ {m})

\* the root holds b, its left child is a leaf that holds a, its right child
\* is a leaf that holds c, and there is nothing else
ThreeShape(a, b, c) ==
    /\ root # NULL
    /\ nodes[root].value = b
    /\ nodes[root].left # NULL
    /\ nodes[root].right # NULL
    /\ nodes[nodes[root].left].value = a
    /\ nodes[nodes[root].right].value = c
    /\ Cardinality(Reachable) = 3

\* `visited' is what a traversal that is to go through `full' calls func
\* with when func returns true on `stop' and on nothing else: the values
\* of `full' up to and including the first `stop', all of them without one
StopsAt(visited, stop, full) ==
    /\ Len(visited) <= Len(full)
    /\ \A i \in 1..Len(visited) : visited[i] = full[i]
    /\ \A i \in 1..(Len(visited) - 1) : visited[i] # stop
    /\ Len(visited) < Len(full) => visited[Len(visited)] = stop

\* the numbers of the set S from the largest to the smallest
RECURSIVE Descending(_)
Descending(S) ==
    IF S = {} THEN <<>>
    ELSE LET m == CHOOSE x \in S : \A y \in S : x >= y
         IN <<m>> \o Descending(S \ {m})

(***************************************************************************)
(* C1.  BST order: for every node n, every value in n's left subtree       *)
(* compares less than n's value and every value in n's right subtree       *)
(* compares greater.                                                       *)
(***************************************************************************)
BSTOrder ==
    \A n \in Reachable :
        /\ \A m \in Subtree(Tree, nodes[n].left) :
               comparator(nodes[m].value, nodes[n].value) < 0
        /\ \A m \in Subtree(Tree, nodes[n].right) :
               comparator(nodes[m].value, nodes[n].value) > 0

\* a removal spliced a replacement into the place of a node with two
\* children, in a tree that has been through rotations
BSTOrderWitness ==
    /\ lastOp = "remove"
    /\ lastRet \notin {NULL, THREW}
    /\ root # NULL
    /\ nodes[root].left # NULL
    /\ nodes[root].right # NULL
    /\ nodes[nodes[root].left].value < lastRet
    /\ lastRet < nodes[nodes[root].right].value
    /\ Cardinality(Reachable) >= 4

(***************************************************************************)
(* C2.  AVL balance of the actual shape: after every add or remove call    *)
(* that returns, the true heights of the two subtrees of every node        *)
(* differ by at most 1.                                                    *)
(***************************************************************************)
AVLBalanced ==
    Returned =>
        \A n \in Reachable :
            Abs(TrueHeight(Tree, nodes[n].left)
                - TrueHeight(Tree, nodes[n].right)) <= 1

(***************************************************************************)
(* C3.  Size consistency: after every add or remove call that returns,     *)
(* every node's count is 1 + count(left) + count(right).                   *)
(***************************************************************************)
SizeConsistent ==
    Returned =>
        \A n \in Reachable :
            nodes[n].count = 1 + countOf(Tree, nodes[n].left)
                               + countOf(Tree, nodes[n].right)

(***************************************************************************)
(* C4.  Height consistency of the stored fields: after every add or        *)
(* remove call that returns, every node's height is 1 + the larger of its  *)
(* children's stored heights (0 for an absent child).                      *)
(***************************************************************************)
HeightConsistent ==
    Returned =>
        \A n \in Reachable :
            nodes[n].height = 1 + Max(heightOf(Tree, nodes[n].left),
                                      heightOf(Tree, nodes[n].right))

(***************************************************************************)
(* C5.  Min/max cache: the cached min and max nodes are both null exactly  *)
(* when the tree is empty, and otherwise are the in-order first and last   *)
(* node, which hold the smallest and the largest stored value.             *)
(***************************************************************************)
MinMaxCorrect ==
    /\ (minNode = NULL) <=> (root = NULL)
    /\ (maxNode = NULL) <=> (root = NULL)
    /\ root # NULL =>
         /\ minNode = minDescend(Tree, root)
         /\ maxNode = maxDescend(Tree, root)
         /\ \A v \in TreeValues :
               /\ comparator(nodes[minNode].value, v) <= 0
               /\ comparator(nodes[maxNode].value, v) >= 0

\* the last call removed the minimum of a tree that is still not empty
MinMaxWitness ==
    /\ lastOp = "remove"
    /\ lastRet \notin {NULL, THREW}
    /\ root # NULL
    /\ lastRet < nodes[minNode].value
    /\ Cardinality(Reachable) >= 3

(***************************************************************************)
(* C6.  Uniqueness: no two nodes reachable from the root hold equal        *)
(* values.                                                                 *)
(***************************************************************************)
Uniqueness ==
    \A a, b \in Reachable : a # b => nodes[a].value # nodes[b].value

\* an add of a value the tree holds was turned down
UniquenessWitness ==
    /\ lastOp = "add"
    /\ lastRet = FALSE
    /\ lastArg \in TreeValues
    /\ Cardinality(Reachable) >= 2

(***************************************************************************)
(* C7.  The tree refines a set: getValues() returns exactly the values     *)
(* added and not removed since, each once, in strictly ascending order.    *)
(***************************************************************************)
GetValuesIsStored ==
    \A g \in {getValues(Tree)} :
        /\ ~g.threw
        /\ ~g.timeout
        /\ SetOf(g.visited) = stored
        /\ Len(g.visited) = Cardinality(stored)
        /\ StrictlyAscending(g.visited)

\* values were added and one was removed; four are left
GetValuesWitness ==
    /\ lastOp = "remove"
    /\ lastRet \notin {NULL, THREW}
    /\ Len(getValues(Tree).visited) >= 4

(***************************************************************************)
(* C8.  contains(v) is true if and only if v was added and not removed     *)
(* since, for every v.                                                     *)
(***************************************************************************)
ContainsIsStored ==
    \A v \in Values : contains(Tree, v) <=> v \in stored

\* the value just added is found below a root it was rotated under
ContainsWitness ==
    /\ lastOp = "add"
    /\ lastRet = TRUE
    /\ contains(Tree, lastArg)
    /\ nodes[root].value # lastArg
    /\ Cardinality(Reachable) >= 5

(***************************************************************************)
(* C9.  add(v) returns true exactly when no stored value compares equal    *)
(* to v, and getCount() then grows by exactly 1; add(v) twice in a row     *)
(* returns true then false, with getCount() grown by 1 in total.           *)
(***************************************************************************)
AddResult ==
    [][lastOp' = "add" =>
         /\ lastRet' = (\A n \in Reachable :
                           comparator(nodes[n].value, lastArg') # 0)
         /\ lastRet' = TRUE => getCount(Tree)' = getCount(Tree) + 1
         /\ (lastOp = "add" /\ lastArg = lastArg' /\ lastRet = TRUE) =>
               (lastRet' = FALSE /\ getCount(Tree)' = getCount(Tree))]_vars

\* an add that had to rotate returned true
AddResultWitness ==
    /\ lastOp = "add"
    /\ lastRet = TRUE
    /\ nodes[root].value # lastArg
    /\ getCount(Tree) >= 3
    /\ nodes[lastArg].parent # NULL
    /\ nodes[nodes[lastArg].parent].height = 2
    /\ nodes[nodes[lastArg].parent].count = 3

(***************************************************************************)
(* C10.  add(v) of a value already stored returns false and leaves the     *)
(* tree unchanged: root, links, counts, heights, cached min and max.       *)
(***************************************************************************)
AddDuplicateNoOp ==
    [][(lastOp' = "add" /\ lastArg' \in TreeValues) =>
         /\ lastRet' = FALSE
         /\ root' = root
         /\ nodes' = nodes
         /\ minNode' = minNode
         /\ maxNode' = maxNode]_vars

\* a duplicate add was turned down on a tree of at least three nodes
AddDuplicateWitness ==
    /\ lastOp = "add"
    /\ lastRet = FALSE
    /\ Cardinality(Reachable) >= 3
    /\ getHeight(Tree) >= 2

(***************************************************************************)
(* C11.  remove(v) of a stored value returns v and getCount() goes down by *)
(* exactly 1, wherever v's node is: a leaf, a node with one child, a node  *)
(* with two children, the root.                                            *)
(***************************************************************************)
RemoveStored ==
    [][(lastOp' = "remove" /\ lastArg' \in TreeValues) =>
         /\ lastRet' = lastArg'
         /\ getCount(Tree)' = getCount(Tree) - 1]_vars

(***************************************************************************)
(* C12.  remove(v) of a value that is not stored returns null and leaves   *)
(* the tree unchanged: root, links, counts, heights, cached min and max.   *)
(***************************************************************************)
RemoveAbsentNoOp ==
    [][(lastOp' = "remove" /\ lastArg' \notin TreeValues) =>
         /\ lastRet' = NULL
         /\ root' = root
         /\ nodes' = nodes
         /\ minNode' = minNode
         /\ maxNode' = maxNode]_vars

\* a remove missed its value in a tree of at least three nodes, after a
\* descent that went both ways
RemoveAbsentWitness ==
    /\ lastOp = "remove"
    /\ lastRet = NULL
    /\ Cardinality(Reachable) >= 3
    /\ nodes[minNode].value < lastArg
    /\ lastArg < nodes[maxNode].value
    /\ lastArg # nodes[root].value

(***************************************************************************)
(* C13.  remove never fails part-way: every remove returns normally, and   *)
(* it either detaches exactly the node that holds the value or changes     *)
(* nothing; no size counter goes down while the node that holds the value  *)
(* stays attached.                                                         *)
(***************************************************************************)
RemoveAllOrNothing ==
    [][lastOp' = "remove" =>
         /\ lastRet' # THREW
         /\ \/ /\ root' = root
               /\ nodes' = nodes
            \/ /\ lastArg' \in TreeValues
               /\ TreeValues' = TreeValues \ {lastArg'}
         /\ lastArg' \in TreeValues' => nodes' = nodes]_vars

(***************************************************************************)
(* C14.  Order statistics agree with the sorted sequence: for every i with *)
(* 0 <= i < getCount(), getNthValue(i) equals getValues()[i], the i-th     *)
(* smallest stored value, after any sequence of add and remove.            *)
(***************************************************************************)
NthIsGetValues ==
    (lastOp = "getNthValue" /\ 0 <= lastArg /\ lastArg < getCount(Tree)) =>
        \A g \in {getValues(Tree).visited} :
            /\ lastArg + 1 <= Len(g)
            /\ lastRet = g[lastArg + 1]
            /\ lastRet = Ascending(stored)[lastArg + 1]

(***************************************************************************)
(* C15.  getNthValue(k) with k < 0 or k >= getCount(), on an empty tree    *)
(* with any k, returns null without raising and without changing the tree. *)
(***************************************************************************)
NthOutOfRange ==
    [][(lastOp' = "getNthValue"
          /\ (lastArg' < 0 \/ lastArg' >= getCount(Tree))) =>
         /\ lastRet' = NULL
         /\ root' = root
         /\ nodes' = nodes
         /\ minNode' = minNode
         /\ maxNode' = maxNode]_vars

\* getNthValue was called with k = getCount() on a tree of at least three
\* nodes
NthOutOfRangeWitness ==
    /\ lastOp = "getNthValue"
    /\ lastArg = getCount(Tree)
    /\ lastRet = NULL
    /\ Cardinality(Reachable) >= 3

(***************************************************************************)
(* C16.  getCount() always equals the number of values stored: the number  *)
(* of nodes reachable from the root and the length of getValues(); it is 0 *)
(* for the empty tree.  This holds after every sequence of add, remove and *)
(* clear.                                                                  *)
(***************************************************************************)
CountIsSize ==
    /\ getCount(Tree) = Cardinality(stored)
    /\ getCount(Tree) = Cardinality(Reachable)
    /\ getCount(Tree) = Len(getValues(Tree).visited)
    /\ root = NULL => getCount(Tree) = 0

(***************************************************************************)
(* C17.  getHeight() returns the actual height of the tree, the number of  *)
(* nodes on the longest path from the root down to a leaf, after every     *)
(* sequence of add and remove; it is 0 for the empty tree.                 *)
(***************************************************************************)
HeightIsActual ==
    /\ getHeight(Tree) = TrueHeight(Tree, root)
    /\ root = NULL => getHeight(Tree) = 0

(***************************************************************************)
(* C18.  Height bound: for every tree of n >= 1 nodes, getHeight() is at   *)
(* most 1.4405 * log2(n + 2) - 1.3277; getHeight() is an integer, so this  *)
(* is getHeight() <= the bound rounded down, tabulated for each n.         *)
(***************************************************************************)
HeightBound ==
    \A n \in DOMAIN heightBound :
        Cardinality(Reachable) = n => getHeight(Tree) <= heightBound[n]

(***************************************************************************)
(* C19.  inOrderTraverse(visit, startValue) calls visit exactly once for   *)
(* each stored value >= startValue, in ascending order, and for no other   *)
(* value: a start value that is stored comes first, a start value between  *)
(* two stored values yields the next larger one first; without a start     *)
(* value every stored value is visited, ascending.                         *)
(***************************************************************************)
InOrderFromStart ==
    lastOp = "inOrderTraverse" =>
        lastRet.visited =
            Ascending({v \in stored : lastArg = NULL \/ v >= lastArg})

(***************************************************************************)
(* C20.  reverseOrderTraverse(visit, startValue) calls visit exactly once  *)
(* for each stored value <= startValue, in descending order, and for no    *)
(* other value, beginning at the largest stored value <= startValue;       *)
(* without a start value it visits every stored value in descending order, *)
(* the reverse of getValues().                                             *)
(***************************************************************************)
ReverseFromStart ==
    lastOp = "reverseOrderTraverse" =>
        lastRet.visited =
            Descending({v \in stored : lastArg = NULL \/ v <= lastArg})

(***************************************************************************)
(* C21.  Early stop: in inOrderTraverse and in reverseOrderTraverse, once  *)
(* the visit callback has returned true, visit is not called again in that *)
(* traversal, and the values visited up to then are a prefix of the full   *)
(* ascending, respectively descending, sequence of the stored values.      *)
(***************************************************************************)
EarlyStop ==
    [][\A stop \in Values :
         /\ InOrderTraverseUntil(stop) =>
                StopsAt(lastRet'.visited, stop, Ascending(stored))
         /\ ReverseOrderTraverseUntil(stop) =>
                StopsAt(lastRet'.visited, stop, Descending(stored))]_vars

\* a reverse traversal of at least five values was ended by its callback
\* after the third value
EarlyStopWitness ==
    /\ lastOp = "reverseOrderTraverse"
    /\ Cardinality(stored) >= 5
    /\ Len(lastRet.visited) = 3
    /\ lastRet.visited = SubSeq(Descending(stored), 1, 3)

(***************************************************************************)
(* C22.  Three values: adding 1, 2, 3 in that order to an empty tree ends  *)
(* with root 2, left child 1, right child 3 and getHeight() = 2; adding    *)
(* any three distinct values in any of the six orders ends with the median *)
(* at the root, the other two as its leaf children, and getHeight() = 2.   *)
(***************************************************************************)
ThreeValues ==
    Cardinality(stored) = 3 =>
        \A s \in {Ascending(stored)} :
            /\ ThreeShape(s[1], s[2], s[3])
            /\ getHeight(Tree) = 2

(***************************************************************************)
(* C23.  Removing the only remaining value puts the tree in the empty      *)
(* state: root, cached min and cached max are all null, getCount() = 0 and *)
(* getHeight() = 0.                                                        *)
(***************************************************************************)
RemoveLast ==
    [][(lastOp' = "remove" /\ TreeValues = {lastArg'}) =>
         /\ lastRet' = lastArg'
         /\ root' = NULL
         /\ minNode' = NULL
         /\ maxNode' = NULL
         /\ getCount(Tree)' = 0
         /\ getHeight(Tree)' = 0]_vars

\* a remove call returned the last value and left the tree empty
RemoveLastWitness ==
    /\ lastOp = "remove"
    /\ lastRet = lastArg
    /\ lastArg \in Values
    /\ root = NULL
    /\ stored = {}

(***************************************************************************)
(* C24.  A tree emptied by repeatedly removing its root value (roots with  *)
(* two children included) reaches getCount() = 0, and a subsequent add(v)  *)
(* reinitialises it: every removal of the root's value returns the value   *)
(* and lowers getCount() by one, and an add(v) that follows the removal    *)
(* that brought getCount() to 0 returns true and leaves exactly v, with    *)
(* getCount() = 1, getMinimum() = getMaximum() = v and getHeight() = 1.    *)
(***************************************************************************)
RootRemovalThenAdd ==
    [][/\ (lastOp' = "remove" /\ root # NULL
                              /\ lastArg' = nodes[root].value) =>
             /\ lastRet' = lastArg'
             /\ getCount(Tree)' = getCount(Tree) - 1
       /\ (lastOp' = "add" /\ lastOp = "remove" /\ getCount(Tree) = 0) =>
             /\ lastRet' = TRUE
             /\ getValues(Tree)'.visited = <<lastArg'>>
             /\ getCount(Tree)' = 1
             /\ getMinimum(Tree)' = lastArg'
             /\ getMaximum(Tree)' = lastArg'
             /\ getHeight(Tree)' = 1]_vars

(***************************************************************************)
(* C25.  On an empty tree (fresh, cleared, or emptied by removals)         *)
(* getMinimum() and getMaximum() return without raising an error.          *)
(***************************************************************************)
MinMaxOnEmpty ==
    (lastOp \in {"getMinimum", "getMaximum"} /\ root = NULL) =>
        lastRet # THREW

(***************************************************************************)
(* C26.  Round trip: adding the values of any permutation of a tree's      *)
(* getValues() one by one into a fresh tree yields a tree whose            *)
(* getValues() is the same sequence.  getValues() of a reachable tree is   *)
(* the ascending sequence of a set of values (GetValuesIsStored), and the  *)
(* behaviours of a fresh tree that is only added to run through every      *)
(* permutation of every such set; so: after each add of a new value to a   *)
(* tree built by adds alone getValues() is the ascending sequence of the   *)
(* values given so far, in whatever order they were given.                 *)
(***************************************************************************)
RoundTrip ==
    (lastOp = "add" /\ lastRet = TRUE) =>
        getValues(Tree).visited = Ascending(stored)

\* every value was given, the smallest one last and the largest one first
\* or in the middle, and getValues() lists them in ascending order
RoundTripWitness ==
    /\ lastOp = "add"
    /\ lastRet = TRUE
    /\ stored = Values
    /\ lastArg = 1
    /\ nodes[root].value # MaxVal
    /\ getValues(Tree).visited = Ascending(Values)

(***************************************************************************)
(* The loops of the operations, each run on a budget of Fuel steps: the    *)
(* value is TRUE when the loop ends within the budget.                     *)
(***************************************************************************)
\* the comparator-guided descent of add, remove, contains and of the
\* search for a start value
RECURSIVE descentEnds(_, _, _, _)
descentEnds(t, node, value, fuel) ==
    IF node = NULL THEN TRUE
    ELSE IF fuel = 0 THEN FALSE
    ELSE IF comparator(t.nodes[node].value, value) > 0
    THEN descentEnds(t, t.nodes[node].left, value, fuel - 1)
    ELSE IF comparator(t.nodes[node].value, value) < 0
    THEN descentEnds(t, t.nodes[node].right, value, fuel - 1)
    ELSE TRUE

\* the walks of _getMinNode(rootNode) / _getMaxNode(rootNode)
RECURSIVE extremeEnds(_, _, _, _)
extremeEnds(t, node, leftward, fuel) ==
    IF node = NULL THEN TRUE
    ELSE IF fuel = 0 THEN FALSE
    ELSE extremeEnds(t, IF leftward THEN t.nodes[node].left
                        ELSE t.nodes[node].right, leftward, fuel - 1)

\* the upward walk of the size updates: "return node._parent" until null
RECURSIVE walkEnds(_, _, _)
walkEnds(t, node, fuel) ==
    IF node = NULL THEN TRUE
    ELSE IF fuel = 0 THEN FALSE
    ELSE walkEnds(t, t.nodes[node].parent, fuel - 1)

\* the upward walk of the balancer, which rotates on its way
RECURSIVE balanceEnds(_, _, _)
balanceEndsUp(t, node, fuel) == balanceEnds(t, t.nodes[node].parent, fuel)

balanceEnds(t, node, fuel) ==
    IF node = NULL THEN TRUE
    ELSE IF fuel = 0 THEN FALSE
    ELSE balanceEndsUp(balanceVisit(t, node), node, fuel - 1)

\* the recursion of _getNthNode; a null root ends it with a TypeError
RECURSIVE nthEnds(_, _, _, _)
nthEnds(t, n, rootNode, fuel) ==
    IF nthRoot(t, rootNode) = NULL THEN TRUE
    ELSE IF fuel = 0 THEN FALSE
    ELSE IF n < countOf(t, t.nodes[nthRoot(t, rootNode)].left)
    THEN nthEnds(t, n, t.nodes[nthRoot(t, rootNode)].left, fuel - 1)
    ELSE IF n = countOf(t, t.nodes[nthRoot(t, rootNode)].left)
    THEN TRUE
    ELSE nthEnds(t, n - countOf(t, t.nodes[nthRoot(t, rootNode)].left) - 1,
                 t.nodes[nthRoot(t, rootNode)].right, fuel - 1)

\* getNthValue(n), which calls _getNthNode when n is in [0, getCount())
getNthValueEnds(t, n) ==
    (n >= 0 /\ n < getCount(t)) => nthEnds(t, n, NULL, Fuel)

\* the two walks add makes from the parent p of the node it created
addWalksEnd(t, p) ==
    /\ walkEnds(t, traverseStart(t, p), Fuel)
    /\ balanceEnds(updateCounts(t, p, 1), traverseStart(t, p), Fuel)

\* add(value): the descent, then the walks if a node was created
addEnds(t, value) ==
    /\ descentEnds(t, t.root, value, Fuel)
    /\ \A d \in {addDescend(t, t.root, value)} :
          d.newNode # NULL => addWalksEnd(d.t, d.t.nodes[d.newNode].parent)

\* _removeNode of a leaf whose parent is p
removeLeafEnds(t, node, p) ==
    /\ walkEnds(t, traverseStart(t, p), Fuel)
    /\ isLeftChild(t, node) =>
          balanceEnds(unlinkLeft(updateCounts(t, p, -1), node, p),
                      traverseStart(t, p), Fuel)
    /\ (~isLeftChild(t, node) /\ isRightChild(t, node)) =>
          balanceEnds(unlinkRight(updateCounts(t, p, -1), node, p),
                      traverseStart(t, p), Fuel)

\* the walks of _removeNode of a node with a child once replacementNode
\* has the value r and the counts are updated in u
removeWalksEnd(t, u, node, r) ==
    /\ walkEnds(t, traverseStart(t, r), Fuel)
    /\ (r # NULL /\ t.nodes[node].left # NULL) =>
          balanceEnds(graftedFromLeft(u, node, r),
                      balanceStart(u, u.nodes[node].left, r), Fuel)
    /\ (r # NULL /\ t.nodes[node].left = NULL) =>
          balanceEnds(graftedFromRight(u, node, r),
                      balanceStart(u, u.nodes[node].right, r), Fuel)

\* _removeNode of a node with a child
removeInnerEnds(t, node) ==
    /\ extremeEnds(t, t.nodes[node].left, FALSE, Fuel)
    /\ extremeEnds(t, t.nodes[node].right, TRUE, Fuel)
    /\ \A r \in {replacementNode(IF t.nodes[node].left # NULL
                                  THEN getMaxNode(t, t.nodes[node].left)
                                  ELSE getMinNode(t, t.nodes[node].right))} :
          removeWalksEnd(t, updateCounts(t, r, -1), node, r)

\* remove(value): the descent, then _removeNode of the node it found
removeEnds(t, value) ==
    /\ descentEnds(t, t.root, value, Fuel)
    /\ \A node \in {n \in Subtree(t, t.root) : t.nodes[n].value = value} :
          IF t.nodes[node].left # NULL \/ t.nodes[node].right # NULL
          THEN removeInnerEnds(t, node)
          ELSE removeLeafEnds(t, node, t.nodes[node].parent)

\* the traversals, with and without a start value, with a callback that
\* never stops them (getValues among them) or stops them at one value
traversalsEnd(t) ==
    \A startValue \in StartArgs : \A stop \in {{}} \cup {{v} : v \in Values} :
        /\ ~inOrderTraverse(t, stop, optional(startValue)).timeout
        /\ ~reverseOrderTraverse(t, stop, optional(startValue)).timeout

(***************************************************************************)
(* C27.  Every public operation (add, remove, contains, getNthValue,       *)
(* inOrderTraverse, reverseOrderTraverse, getValues) terminates on every   *)
(* tree reachable by add and remove calls: each comparator-guided descent  *)
(* reaches a null child or the value, each upward walk along parent        *)
(* pointers (size updates, balancer) reaches the root's null parent, each  *)
(* _getNthNode recursion ends, and the stackless traversal loop leaves the *)
(* tree, all within Fuel steps.                                            *)
(***************************************************************************)
Terminates ==
    /\ \A value \in Values : addEnds(Tree, value) /\ removeEnds(Tree, value)
    /\ \A n \in NthArgs : getNthValueEnds(Tree, n)
    /\ traversalsEnd(Tree)

\* a full tree of height 3 or more the last remove rebalanced: the loops of
\* every operation have something to run through
TerminatesWitness ==
    /\ lastOp = "remove"
    /\ lastRet = lastArg
    /\ Cardinality(stored) = MaxVal - 1
    /\ Len(getValues(Tree).visited) = MaxVal - 1
    /\ Terminates

(***************************************************************************)
(* The calls of the balancer: b is the tree _balance is called on, a the   *)
(* tree it returns.                                                        *)
(***************************************************************************)
\* every node whose children differ between b and a has in a the stored
\* height 1 + max of its children's stored heights
heightsSettled(b, a) ==
    \A n \in NodeIds :
        (/\ b.nodes[n] # NoNode
         /\ \/ b.nodes[n].left # a.nodes[n].left
            \/ b.nodes[n].right # a.nodes[n].right) =>
            a.nodes[n].height = 1 + Max(heightOf(a, a.nodes[n].left),
                                        heightOf(a, a.nodes[n].right))

\* this._balance(start) on the tree b
rotationsSettle(b, start) == heightsSettled(b, balance(b, start))

\* the call add makes once the new node hangs under p
addSettles(t, p) == rotationsSettle(updateCounts(t, p, 1), p)

\* the call _removeNode makes for a leaf whose parent is p
removeLeafSettles(t, node, p) ==
    /\ isLeftChild(t, node) =>
          rotationsSettle(unlinkLeft(updateCounts(t, p, -1), node, p), p)
    /\ (~isLeftChild(t, node) /\ isRightChild(t, node)) =>
          rotationsSettle(unlinkRight(updateCounts(t, p, -1), node, p), p)

\* the call _removeNode makes for a node with a child, u being the tree
\* with the counts updated
removeInnerSettles(u, node, r) ==
    r # NULL =>
        IF u.nodes[node].left # NULL
        THEN rotationsSettle(graftedFromLeft(u, node, r),
                             balanceStart(u, u.nodes[node].left, r))
        ELSE rotationsSettle(graftedFromRight(u, node, r),
                             balanceStart(u, u.nodes[node].right, r))

removeSettles(t, node) ==
    IF t.nodes[node].left # NULL \/ t.nodes[node].right # NULL
    THEN \A r \in {replacementNode(IF t.nodes[node].left # NULL
                                   THEN getMaxNode(t, t.nodes[node].left)
                                   ELSE getMinNode(t, t.nodes[node].right))} :
             removeInnerSettles(updateCounts(t, r, -1), node, r)
    ELSE removeLeafSettles(t, node, t.nodes[node].parent)

(***************************************************************************)
(* C28.  Heights after rotations: whenever the balancer rotates, then by   *)
(* the time it returns every node whose children were changed by the       *)
(* rotations (the rotated node, the node rotated up, and in a double       *)
(* rotation the child that was rotated first) has a stored height equal to *)
(* 1 + max of its children's stored heights.  Stated for every call of the *)
(* balancer that an add or a remove on a reachable tree makes.             *)
(***************************************************************************)
RotationHeights ==
    /\ \A value \in Values : \A d \in {addDescend(Tree, root, value)} :
          d.newNode # NULL => addSettles(d.t, d.t.nodes[d.newNode].parent)
    /\ \A node \in Reachable : removeSettles(Tree, node)

(***************************************************************************)
(* The removal of a node with a child, looked at when it calls the         *)
(* balancer: t is the tree before the call, u the tree with the counts     *)
(* updated, g the tree handed to _balance, r the replacement.              *)
(***************************************************************************)
\* r stands where node stood: node's parent link, and that parent's child
\* slot (or the root) refers to r
inPlaceOf(t, g, node, r) ==
    /\ g.nodes[r].parent = t.nodes[node].parent
    /\ isLeftChild(t, node) => g.nodes[t.nodes[node].parent].left = r
    /\ isRightChild(t, node) => g.nodes[t.nodes[node].parent].right = r
    /\ t.nodes[node].parent = NULL => g.root = r

\* r has the child c of node on the given side, and c refers back to r
hasChildOf(g, r, c, leftSide) ==
    /\ (IF leftSide THEN g.nodes[r].left ELSE g.nodes[r].right) = c
    /\ c # NULL => g.nodes[c].parent = r

\* the case "node has a left child": r is the maximum of the left subtree
predecessorTakesPlace(t, u, g, node, r) ==
    /\ r \in Subtree(t, t.nodes[node].left)
    /\ \A n \in Subtree(t, t.nodes[node].left) :
          t.nodes[n].value <= t.nodes[r].value
    /\ inPlaceOf(t, g, node, r)
    /\ hasChildOf(g, r, t.nodes[node].right, FALSE)
    /\ IF r = t.nodes[node].left
       THEN g.nodes[r].left = t.nodes[r].left
       ELSE /\ hasChildOf(g, r, t.nodes[node].left, TRUE)
            /\ hasChildOf(g, t.nodes[r].parent, t.nodes[r].left, FALSE)
    /\ g.nodes[r].count = u.nodes[node].count

\* the case "only a right child": r is the minimum of the right subtree
successorTakesPlace(t, u, g, node, r) ==
    /\ r \in Subtree(t, t.nodes[node].right)
    /\ \A n \in Subtree(t, t.nodes[node].right) :
          t.nodes[n].value >= t.nodes[r].value
    /\ inPlaceOf(t, g, node, r)
    /\ hasChildOf(g, r, t.nodes[node].left, TRUE)
    /\ IF r = t.nodes[node].right
       THEN g.nodes[r].right = t.nodes[r].right
       ELSE /\ hasChildOf(g, r, t.nodes[node].right, FALSE)
            /\ hasChildOf(g, t.nodes[r].parent, t.nodes[r].right, TRUE)
    /\ g.nodes[r].count = u.nodes[node].count

\* r being the value of the local variable the removal works with
takesPlace(t, u, node, r) ==
    /\ r # NULL
    /\ IF t.nodes[node].left # NULL
       THEN predecessorTakesPlace(t, u, graftedFromLeft(u, node, r), node, r)
       ELSE successorTakesPlace(t, u, graftedFromRight(u, node, r), node, r)

\* the nodes of the tree that have a child
Inner == {n \in Reachable : nodes[n].left # NULL \/ nodes[n].right # NULL}

\* the value of replacementNode / r when _removeNode(node) has chosen
chosen(t, node) ==
    replacementNode(IF t.nodes[node].left # NULL
                    THEN getMaxNode(t, t.nodes[node].left)
                    ELSE getMinNode(t, t.nodes[node].right))

(***************************************************************************)
(* C29.  Replacement choice in removal: when the removed node has a left   *)
(* child, the node that takes its position is the maximum node of its left *)
(* subtree; when it has only a right child, it is the minimum node of its  *)
(* right subtree; the replacement's own child is re-parented into the gap  *)
(* it leaves, and the replacement inherits the removed node's parent link, *)
(* left and right children and size (the size the removed node has once    *)
(* the removal has counted itself).                                        *)
(***************************************************************************)
ReplacementChoice ==
    \A node \in Inner : \A r \in {chosen(Tree, node)} :
        takesPlace(Tree, updateCounts(Tree, r, -1), node, r)

\* the nodes from `from' upwards along the parent links, as far as the
\* node stopAt (left out) or the root
RECURSIVE pathUpD(_, _, _, _)
pathUpD(t, from, stopAt, d) ==
    IF from = NULL \/ from = stopAt \/ d = 0 THEN {}
    ELSE {from} \cup pathUpD(t, t.nodes[from].parent, stopAt, d - 1)

pathUp(t, from, stopAt) == pathUpD(t, from, stopAt, Depth)

\* the tree _removeNode(node) hands to the balancer
grafted(t, node, r) ==
    IF t.nodes[node].left # NULL
    THEN graftedFromLeft(updateCounts(t, r, -1), node, r)
    ELSE graftedFromRight(updateCounts(t, r, -1), node, r)

\* between t and g the count went down by one on the nodes of S and stayed
\* as it was on every other node of the tree, the nodes in skip aside
decrementedExactlyOn(t, g, S, skip) ==
    \A n \in Subtree(t, t.root) \ skip :
        g.nodes[n].count - t.nodes[n].count = IF n \in S THEN 0 - 1 ELSE 0

\* the removals of a node with a child that go through: the node and the
\* replacement the code works with
Replaced ==
    {nr \in Inner \X NodeIds : nr[2] = chosen(Tree, nr[1])}

(***************************************************************************)
(* C30, as stated.  Size decrement path in removal: when a                 *)
(* node with children is removed, the stored size is decremented by one    *)
(* exactly on the nodes on the path from the replacement's original        *)
(* position up to, but not including, the removed node, and on no other    *)
(* node.  (The removed node and the replacement, whose size is             *)
(* overwritten, are left out of the comparison.)                           *)
(***************************************************************************)
SizePathStopsAtRemoved ==
    [][(lastOp' = "remove" /\ lastRet' = lastArg') =>
         \A nr \in Replaced :
             nodes[nr[1]].value = lastArg' =>
                 decrementedExactlyOn(Tree, grafted(Tree, nr[1], nr[2]),
                                      pathUp(Tree, nr[2], nr[1]),
                                      {nr[1], nr[2]})]_vars

(***************************************************************************)
(* C30, amended.  When a node with children is removed, the stored size is *)
(* decremented by one exactly on the nodes on the path from the            *)
(* replacement's original position up to the root: the nodes between the   *)
(* replacement and the removed node and every ancestor of the removed      *)
(* node; the replacement ends with the removed node's size less one, and   *)
(* no other node's size changes.  Both statements are about the remove     *)
(* steps that return the value of a node with a child, and compare the     *)
(* tree before the step with the tree the step hands to the balancer.      *)
(***************************************************************************)
SizePathToRoot ==
    [][(lastOp' = "remove" /\ lastRet' = lastArg') =>
         \A nr \in Replaced :
             nodes[nr[1]].value = lastArg' =>
                 /\ decrementedExactlyOn(Tree, grafted(Tree, nr[1], nr[2]),
                                         pathUp(Tree, nr[2], NULL),
                                         {nr[1], nr[2]})
                 /\ grafted(Tree, nr[1], nr[2]).nodes[nr[2]].count =
                        nodes[nr[1]].count - 1]_vars

\* a removal that went through took a node with a parent whose replacement
\* was not its child: there are nodes between the two and nodes above
SizePathWitness ==
    \E nr \in Replaced :
        /\ nodes[nr[1]].parent # NULL
        /\ nodes[nr[1]].left # NULL
        /\ nodes[nr[2]].parent # nr[1]
        /\ remove(Tree, nodes[nr[1]].value).ret = nodes[nr[1]].value
        /\ getCount(remove(Tree, nodes[nr[1]].value).t) = getCount(Tree) - 1

(***************************************************************************)
(* The calls of the balancer a step makes: the tree _balance is called on  *)
(* and the node it is called with.                                         *)
(***************************************************************************)
\* add(value): this._balance(newNode._parent)
addCall(t, value) ==
    {[t |-> updateCounts(d.t, d.t.nodes[d.newNode].parent, 1),
      start |-> d.t.nodes[d.newNode].parent] :
         d \in {x \in {addDescend(t, t.root, value)} : x.newNode # NULL}}

\* _removeNode(node) of a node with a child
removeInnerCall(t, node) ==
    {[t |-> grafted(t, node, r),
      start |-> balanceStart(updateCounts(t, r, 0 - 1),
                             IF t.nodes[node].left # NULL
                             THEN t.nodes[node].left ELSE t.nodes[node].right,
                             r)] :
         r \in {chosen(t, node)} \ {NULL}}

\* _removeNode(node) of a leaf whose parent is p
removeLeafCall(t, node, p) ==
    IF isLeftChild(t, node)
    THEN {[t |-> unlinkLeft(updateCounts(t, p, 0 - 1), node, p), start |-> p]}
    ELSE IF isRightChild(t, node)
    THEN {[t |-> unlinkRight(updateCounts(t, p, 0 - 1), node, p), start |-> p]}
    ELSE {}

removeNodeCall(t, node) ==
    IF t.nodes[node].left # NULL \/ t.nodes[node].right # NULL
    THEN removeInnerCall(t, node)
    ELSE removeLeafCall(t, node, t.nodes[node].parent)

\* remove(value)
removeCall(t, value) ==
    UNION {removeNodeCall(t, node) :
              node \in {n \in Subtree(t, t.root) : t.nodes[n].value = value}}

\* the nodes the traversal function of _balance is called on
RECURSIVE visitedBy(_, _, _)
visitedByUp(t, node, fuel) ==
    {node} \cup visitedBy(t, t.nodes[node].parent, fuel)

visitedBy(t, node, fuel) ==
    IF node = NULL \/ fuel = 0 THEN {}
    ELSE visitedByUp(balanceVisit(t, node), node, fuel - 1)

(***************************************************************************)
(* What one visit of the balancer does to the links, said without the      *)
(* rotations: t is the tree before the visit, a the tree after it.         *)
(***************************************************************************)
\* the child c leans towards its inner grandchild: it has the child
\* `inner' and either no child `outer' or a lower one
leansInward(t, inner, outer) ==
    /\ inner # NULL
    /\ outer = NULL \/ t.nodes[outer].height < t.nodes[inner].height

\* top stands where node stood
standsFor(t, a, node, top) ==
    /\ a.nodes[top].parent = t.nodes[node].parent
    /\ isLeftChild(t, node) => a.nodes[t.nodes[node].parent].left = top
    /\ isRightChild(t, node) => a.nodes[t.nodes[node].parent].right = top
    /\ t.nodes[node].parent = NULL => a.root = top

\* n has the children l and r, and they refer back to it
hasChildren(a, n, l, r) ==
    /\ a.nodes[n].left = l
    /\ a.nodes[n].right = r
    /\ l # NULL => a.nodes[l].parent = n
    /\ r # NULL => a.nodes[r].parent = n

\* the links of every node outside S, the child links of the parent p of
\* the visited node aside, are as they were
linksKept(t, a, S, p) ==
    \A n \in NodeIds \ S :
        /\ n # p =>
              /\ a.nodes[n].left = t.nodes[n].left
              /\ a.nodes[n].right = t.nodes[n].right
        /\ (\A s \in S : t.nodes[n].parent # s) =>
              a.nodes[n].parent = t.nodes[n].parent

\* a left-heavy node: one right rotation of node, after a left rotation
\* of its left child l when l leans inward
leftHeavyVisit(t, a, node, l) ==
    IF leansInward(t, t.nodes[l].right, t.nodes[l].left)
    THEN /\ standsFor(t, a, node, t.nodes[l].right)
         /\ hasChildren(a, t.nodes[l].right, l, node)
         /\ hasChildren(a, l, t.nodes[l].left,
                        t.nodes[t.nodes[l].right].left)
         /\ hasChildren(a, node, t.nodes[t.nodes[l].right].right,
                        t.nodes[node].right)
         /\ linksKept(t, a, {node, l, t.nodes[l].right}, t.nodes[node].parent)
    ELSE /\ standsFor(t, a, node, l)
         /\ hasChildren(a, l, t.nodes[l].left, node)
         /\ hasChildren(a, node, t.nodes[l].right, t.nodes[node].right)
         /\ linksKept(t, a, {node, l}, t.nodes[node].parent)

\* the mirror image
rightHeavyVisit(t, a, node, r) ==
    IF leansInward(t, t.nodes[r].left, t.nodes[r].right)
    THEN /\ standsFor(t, a, node, t.nodes[r].left)
         /\ hasChildren(a, t.nodes[r].left, node, r)
         /\ hasChildren(a, r, t.nodes[t.nodes[r].left].right,
                        t.nodes[r].right)
         /\ hasChildren(a, node, t.nodes[node].left,
                        t.nodes[t.nodes[r].left].left)
         /\ linksKept(t, a, {node, r, t.nodes[r].left}, t.nodes[node].parent)
    ELSE /\ standsFor(t, a, node, r)
         /\ hasChildren(a, r, node, t.nodes[r].right)
         /\ hasChildren(a, node, t.nodes[node].left, t.nodes[r].left)
         /\ linksKept(t, a, {node, r}, t.nodes[node].parent)

\* one visit, by the difference of the stored heights of node's children
visitObeys(t, a, node) ==
    IF heightOf(t, t.nodes[node].left) - heightOf(t, t.nodes[node].right) > 1
    THEN leftHeavyVisit(t, a, node, t.nodes[node].left)
    ELSE IF heightOf(t, t.nodes[node].right)
              - heightOf(t, t.nodes[node].left) > 1
    THEN rightHeavyVisit(t, a, node, t.nodes[node].right)
    ELSE a.root = t.root /\ linksKept(t, a, {}, NULL)

\* every visit of the walk that starts at node
RECURSIVE walkObeys(_, _, _)
walkObeysUp(t, a, node, fuel) ==
    /\ visitObeys(t, a, node)
    /\ walkObeys(a, a.nodes[node].parent, fuel)

walkObeys(t, node, fuel) ==
    IF node = NULL THEN TRUE
    ELSE IF fuel = 0 THEN FALSE
    ELSE walkObeysUp(t, balanceVisit(t, node), node, fuel - 1)

\* the call c of the balancer: every visit obeys the rule, and every node
\* from the start node up to the root is visited
callObeys(c) ==
    /\ walkObeys(c.t, c.start, Fuel)
    /\ pathUp(c.t, c.start, NULL) \subseteq visitedBy(c.t, c.start, Fuel)

(***************************************************************************)
(* C31.  Balancer tie-break: at a visited node whose left stored height    *)
(* exceeds its right by more than 1, the balancer first left-rotates the   *)
(* left child exactly when that child has a right child and either has no  *)
(* left child or its left child's stored height is less than its right     *)
(* child's, and then always right-rotates the visited node; the mirrored   *)
(* rule applies to right-heavy nodes; no more than two rotations are       *)
(* performed per visited node, and the walk visits every node from the     *)
(* start node up to the root.  Stated for the call of the balancer each    *)
(* add and remove step makes.                                              *)
(***************************************************************************)
TieBreak ==
    [][/\ lastOp' = "add" => \A c \in addCall(Tree, lastArg') : callObeys(c)
       /\ lastOp' = "remove" =>
             \A c \in removeCall(Tree, lastArg') : callObeys(c)]_vars


\* a remove whose call of the balancer starts at a left-heavy node whose
\* left child has two children of the same stored height: the tie
TieBreakWitness ==
    \E value \in stored : \E c \in removeCall(Tree, value) :
        /\ remove(Tree, value).ret = value
        /\ heightOf(c.t, c.t.nodes[c.start].left)
              - heightOf(c.t, c.t.nodes[c.start].right) > 1
        /\ \E l \in {c.t.nodes[c.start].left} :
              /\ c.t.nodes[l].left # NULL
              /\ c.t.nodes[l].right # NULL
              /\ heightOf(c.t, c.t.nodes[l].left)
                    = heightOf(c.t, c.t.nodes[l].right)
        /\ callObeys(c)


(***************************************************************************)
(* The rotations a call of the balancer performs: the tree each one is     *)
(* applied to, the node it is applied to and its direction.                *)
(***************************************************************************)
\* the rotations of one visit
rotationsOfVisit(t, node) ==
    IF heightOf(t, t.nodes[node].left) - heightOf(t, t.nodes[node].right) > 1
    THEN IF leftNeedsDouble(t, t.nodes[node].left)
         THEN {[t |-> t, node |-> t.nodes[node].left, leftward |-> TRUE],
               [t |-> leftRotate(t, t.nodes[node].left), node |-> node,
                leftward |-> FALSE]}
         ELSE {[t |-> t, node |-> node, leftward |-> FALSE]}
    ELSE IF heightOf(t, t.nodes[node].right)
              - heightOf(t, t.nodes[node].left) > 1
    THEN IF rightNeedsDouble(t, t.nodes[node].right)
         THEN {[t |-> t, node |-> t.nodes[node].right, leftward |-> FALSE],
               [t |-> rightRotate(t, t.nodes[node].right), node |-> node,
                leftward |-> TRUE]}
         ELSE {[t |-> t, node |-> node, leftward |-> TRUE]}
    ELSE {}

\* the rotations of the walk that starts at node
RECURSIVE rotationsOfWalk(_, _, _)
rotationsOfWalkUp(t, node, fuel) ==
    rotationsOfWalk(t, t.nodes[node].parent, fuel)

rotationsOfWalk(t, node, fuel) ==
    IF node = NULL \/ fuel = 0 THEN {}
    ELSE rotationsOfVisit(t, node)
            \cup rotationsOfWalkUp(balanceVisit(t, node), node, fuel - 1)

\* the rotations of the step that calls op(arg) on the tree t
rotationsOfStep(t, op, arg) ==
    UNION {rotationsOfWalk(c.t, c.start, Fuel) :
              c \in IF op = "add" THEN addCall(t, arg)
                    ELSE IF op = "remove" THEN removeCall(t, arg)
                    ELSE {}}

\* the values of the subtree of n from left to right, by the child links
RECURSIVE inOrderOfD(_, _, _)
inOrderOfD(t, n, d) ==
    IF n = NULL \/ d = 0 THEN <<>>
    ELSE inOrderOfD(t, t.nodes[n].left, d - 1)
            \o <<t.nodes[n].value>>
            \o inOrderOfD(t, t.nodes[n].right, d - 1)

inOrderOf(t) == inOrderOfD(t, t.root, Depth)

\* a is t with node rotated to the left
rotatedLeft(t, a, node, temp) ==
    /\ temp # NULL
    /\ standsFor(t, a, node, temp)
    /\ hasChildren(a, temp, node, t.nodes[temp].right)
    /\ hasChildren(a, node, t.nodes[node].left, t.nodes[temp].left)
    /\ inOrderOf(a) = inOrderOf(t)

\* a is t with node rotated to the right
rotatedRight(t, a, node, temp) ==
    /\ temp # NULL
    /\ standsFor(t, a, node, temp)
    /\ hasChildren(a, temp, t.nodes[temp].left, node)
    /\ hasChildren(a, node, t.nodes[temp].right, t.nodes[node].right)
    /\ inOrderOf(a) = inOrderOf(t)

\* the rotation rho is as described
rotationShaped(rho) ==
    IF rho.leftward
    THEN rotatedLeft(rho.t, leftRotate(rho.t, rho.node), rho.node,
                     rho.t.nodes[rho.node].right)
    ELSE rotatedRight(rho.t, rightRotate(rho.t, rho.node), rho.node,
                      rho.t.nodes[rho.node].left)

(***************************************************************************)
(* C32.  Rotation structure: rotateLeft(node), for a node with a right     *)
(* child, makes that child the root of the subtree, makes node its left    *)
(* child and makes the child's former left subtree node's right subtree;   *)
(* it updates the parent pointers of all three and redirects the former    *)
(* parent's child link (or the tree's root pointer, whose parent becomes    *)
(* null); the in-order sequence of values of the whole tree is unchanged.  *)
(* rotateRight is the mirror image.  Stated for every rotation an add or   *)
(* a remove step performs.                                                 *)
(***************************************************************************)
RotationStructure ==
    [][\A rho \in rotationsOfStep(Tree, lastOp', lastArg') :
           rotationShaped(rho)]_vars

\* a remove brings a right rotation, below the root, that moves a subtree
\* from the node rotated up to the node rotated down
RotationStructureWitness ==
    \E value \in stored : \E rho \in rotationsOfStep(Tree, "remove", value) :
        /\ remove(Tree, value).ret = value
        /\ ~rho.leftward
        /\ rho.t.nodes[rho.node].parent # NULL
        /\ rho.t.nodes[rho.t.nodes[rho.node].left].right # NULL
        /\ rotationShaped(rho)


\* every node of the tree t has the count 1 + count(left) + count(right)
sizesConsistent(t) ==
    \A n \in Subtree(t, t.root) :
        t.nodes[n].count = 1 + countOf(t, t.nodes[n].left)
                             + countOf(t, t.nodes[n].right)

\* a is t after a rotation of node that brought temp up, `outer' being the
\* child of temp that stays with it
rotationCounted(t, a, node, temp, outer) ==
    /\ a.nodes[temp].count = t.nodes[node].count
    /\ a.nodes[node].count = t.nodes[node].count - (countOf(t, outer) + 1)
    /\ sizesConsistent(a)

\* the counts after the rotation rho
rotationSized(rho) ==
    IF rho.leftward
    THEN rotationCounted(rho.t, leftRotate(rho.t, rho.node), rho.node,
                         rho.t.nodes[rho.node].right,
                         rho.t.nodes[rho.t.nodes[rho.node].right].right)
    ELSE rotationCounted(rho.t, rightRotate(rho.t, rho.node), rho.node,
                         rho.t.nodes[rho.node].left,
                         rho.t.nodes[rho.t.nodes[rho.node].left].left)

(***************************************************************************)
(* C33.  Rotation sizes: applied to a size-consistent tree, rotateLeft     *)
(* gives the new subtree root the rotated node's pre-rotation size and     *)
(* reduces the rotated node's size by (size of the new root's right        *)
(* subtree + 1), rotateRight symmetrically with the left subtree, so that  *)
(* size consistency holds at every node immediately after each single      *)
(* rotation, including between the two rotations of a double rotation.     *)
(* Stated for every rotation an add or a remove step performs.             *)
(***************************************************************************)
RotationSizes ==
    [][\A rho \in rotationsOfStep(Tree, lastOp', lastArg') :
           sizesConsistent(rho.t) => rotationSized(rho)]_vars

\* an add brings a double rotation on a size-consistent tree: the first
\* rotation is counted right, and so is the second
RotationSizesWitness ==
    \E value \in Values : \E rho \in rotationsOfStep(Tree, "add", value) :
        \E sigma \in rotationsOfStep(Tree, "add", value) :
            /\ add(Tree, value).ret
            /\ rho.leftward /\ ~sigma.leftward
            /\ sigma.t = leftRotate(rho.t, rho.node)
            /\ sizesConsistent(rho.t) /\ rotationSized(rho)
            /\ sizesConsistent(sigma.t) /\ rotationSized(sigma)


\* the number of downward paths, of at most d nodes, from n to target
RECURSIVE pathsToD(_, _, _, _)
pathsToD(t, n, target, d) ==
    IF n = NULL \/ d = 0 THEN 0
    ELSE (IF n = target THEN 1 ELSE 0)
            + pathsToD(t, t.nodes[n].left, target, d - 1)
            + pathsToD(t, t.nodes[n].right, target, d - 1)

pathsTo(t, target) == pathsToD(t, t.root, target, Depth)

\* every child refers back to the node that refers to it
childrenReferBack(t) ==
    \A n \in Subtree(t, t.root) :
        /\ t.nodes[n].left # NULL => t.nodes[t.nodes[n].left].parent = n
        /\ t.nodes[n].right # NULL => t.nodes[t.nodes[n].right].parent = n

(***************************************************************************)
(* C34.  Link well-formedness: after every add or remove call returns, the *)
(* root's parent pointer is null, every node referenced as a left or right *)
(* child has its parent pointer set to exactly the node referencing it,    *)
(* every node is reachable from the root by exactly one path (no sharing,  *)
(* no cycle), and no removed node is reachable from the root or from the   *)
(* min/max caches: the caches refer to nodes of the tree, and the nodes of *)
(* the tree hold the values added and not removed, the value just removed  *)
(* not among them.                                                         *)
(***************************************************************************)
LinksWellFormed ==
    Returned =>
        /\ root # NULL => nodes[root].parent = NULL
        /\ childrenReferBack(Tree)
        /\ \A n \in Reachable : pathsTo(Tree, n) = 1
        /\ root # NULL => minNode \in Reachable /\ maxNode \in Reachable
        /\ root = NULL => minNode = NULL /\ maxNode = NULL
        /\ TreeValues = stored
        /\ (lastOp = "remove" /\ lastRet # NULL) =>
              /\ lastRet \notin TreeValues
              /\ \A n \in NodeIds : nodes[n] # NoNode => n \in Reachable

\* a remove took a node with two children out of a tree of height 3 or
\* more, and what is left is well formed
LinksWellFormedWitness ==
    /\ lastOp = "remove"
    /\ lastRet = lastArg
    /\ lastArg \in Values
    /\ Cardinality(Reachable) >= 5
    /\ lastArg > nodes[minNode].value
    /\ lastArg < nodes[maxNode].value
    /\ \E n \in Reachable : nodes[n].parent # NULL /\ nodes[n].left # NULL
    /\ LinksWellFormed


(***************************************************************************)
(* remove as each of the two revisions runs it, on the same tree.  The     *)
(* revisions differ in the variable the removal of a node with a child     *)
(* works with (replacementNode); every other operation is the same code.   *)
(***************************************************************************)
\* `var r' is assigned and used in src/unnamed/part_001; in
\* src/JSAVLTree.js `replacementNode' is declared and `r' assigned
replacementNodeAs(rev, found) == IF rev = "part_001" THEN found ELSE NULL

removeInnerAs(rev, t, node) ==
    removeWith(t, node,
               replacementNodeAs(rev,
                                 IF t.nodes[node].left # NULL
                                 THEN getMaxNode(t, t.nodes[node].left)
                                 ELSE getMinNode(t, t.nodes[node].right)))

removeNodeAs(rev, t, node) ==
    IF t.nodes[node].left # NULL \/ t.nodes[node].right # NULL
    THEN removeInnerAs(rev, t, node)
    ELSE [t |-> removeLeaf(t, node), threw |-> FALSE]

RECURSIVE removeDescendAs(_, _, _, _)
removeDescendAs(rev, t, node, value) ==
    IF node = NULL THEN [t |-> t, ret |-> NULL, threw |-> FALSE]
    ELSE IF comparator(t.nodes[node].value, value) > 0
    THEN removeDescendAs(rev, t, t.nodes[node].left, value)
    ELSE IF comparator(t.nodes[node].value, value) < 0
    THEN removeDescendAs(rev, t, t.nodes[node].right, value)
    ELSE removeOutcome(removeNodeAs(rev, t, node), node, t.nodes[node].value)

removeAs(rev, t, value) == removeDescendAs(rev, t, t.root, value)

(***************************************************************************)
(* C35.  The two implementations are observably equivalent: for every      *)
(* sequence of add, remove, contains, getCount, getHeight, getMinimum,     *)
(* getMaximum, getValues and getNthValue / getKthValue calls they return   *)
(* the same results and end with the same tree shape.  Both start from the *)
(* empty tree and every operation but remove is the same code in both, so: *)
(* on every tree reached, remove(value) as src/JSAVLTree.js runs it and as *)
(* src/unnamed/part_001 runs it return the same and leave the same tree.   *)
(***************************************************************************)
RevisionsAgree ==
    \A value \in Values :
        removeAs("JSAVLTree", Tree, value) = removeAs("part_001", Tree, value)


(***************************************************************************)
(* C36.  A traversal whose start bound no stored value satisfies is        *)
(* harmless: on a non-empty tree, inOrderTraverse with a start value       *)
(* greater than every stored value, and reverseOrderTraverse with a start  *)
(* value smaller than every stored value, call visit zero times and return *)
(* normally.                                                               *)
(***************************************************************************)
UnmetStartHarmless ==
    /\ (/\ lastOp = "inOrderTraverse"
        /\ lastArg # NULL
        /\ root # NULL
        /\ \A v \in stored : v < lastArg)
           => lastRet.visited = <<>> /\ ~lastRet.threw
    /\ (/\ lastOp = "reverseOrderTraverse"
        /\ lastArg # NULL
        /\ root # NULL
        /\ \A v \in stored : v > lastArg)
           => lastRet.visited = <<>> /\ ~lastRet.threw


(***************************************************************************)
(* C37.  A start value of 0 is honoured as a bound like any other value:   *)
(* with a numeric comparator and a tree holding negative and non-negative  *)
(* values, inOrderTraverse(visit, 0) begins at the smallest stored value   *)
(* >= 0, not at the minimum, and reverseOrderTraverse(visit, 0) begins at  *)
(* the largest stored value <= 0, not at the maximum.  The program's 0 is  *)
(* the model's Zero.                                                       *)
(***************************************************************************)
ZeroStartHonoured ==
    (/\ lastOp \in {"inOrderTraverse", "reverseOrderTraverse"}
     /\ lastArg = Zero
     /\ \E v \in stored : v < Zero
     /\ \E v \in stored : v >= Zero)
        => /\ lastRet.visited # <<>>
           /\ lastOp = "inOrderTraverse" =>
                 lastRet.visited[1] =
                     Ascending({v \in stored : v >= Zero})[1]
           /\ lastOp = "reverseOrderTraverse" =>
                 lastRet.visited[1] =
                     Descending({v \in stored : v <= Zero})[1]


(***************************************************************************)
(* The queries without an action so far, and the specification in which    *)
(* every query is called between the mutators.                             *)
(***************************************************************************)
\* a contains that leaves the node its descent began at in the cache of
\* the minimum
Contains_movesMinCache(value) ==
    /\ lastOp' = "contains"
    /\ lastArg' = value
    /\ lastRet' = contains(Tree, value)
    /\ minNode' = root
    /\ UNCHANGED <<variant, root, maxNode, nodes, stored, throws>>

Contains(value) ==
    /\ lastOp' = "contains"
    /\ lastArg' = value
    /\ lastRet' = contains(Tree, value)
    /\ UNCHANGED treeVars

GetCount ==
    /\ lastOp' = "getCount"
    /\ lastArg' = NULL
    /\ lastRet' = getCount(Tree)
    /\ UNCHANGED treeVars

GetHeight ==
    /\ lastOp' = "getHeight"
    /\ lastArg' = NULL
    /\ lastRet' = getHeight(Tree)
    /\ UNCHANGED treeVars

GetValues ==
    /\ lastOp' = "getValues"
    /\ lastArg' = NULL
    /\ lastRet' = getValues(Tree)
    /\ UNCHANGED treeVars

NextQueries ==
    \/ \E value \in Values : Add(value)
    \/ \E value \in Values : Remove(value)
    \/ Clear
    \/ \E value \in Values : Contains(value)
    \/ GetCount
    \/ \E n \in NthArgs : GetNthValue(n)
    \/ GetMinimum
    \/ GetMaximum
    \/ GetHeight
    \/ GetValues
    \/ \E startValue \in StartArgs : InOrderTraverse(startValue)
    \/ \E startValue \in StartArgs : ReverseOrderTraverse(startValue)

SpecQueries == Init /\ [][NextQueries]_vars

\* the names the query actions leave in lastOp
Queries ==
    {"contains", "getCount", "getNthValue", "getMinimum", "getMaximum",
     "getHeight", "getValues", "inOrderTraverse", "reverseOrderTraverse"}

(***************************************************************************)
(* C38.  Queries are read-only: contains, getCount, getNthValue,           *)
(* getMinimum, getMaximum, getHeight, getValues, inOrderTraverse and       *)
(* reverseOrderTraverse (with a visit callback that does not itself call   *)
(* the tree) leave the root, every node's links, stored counts and stored  *)
(* heights, and the min/max caches unchanged, whether the call returns or  *)
(* raises.                                                                 *)
(***************************************************************************)
QueriesReadOnly ==
    [][lastOp' \in Queries =>
          /\ root' = root
          /\ nodes' = nodes
          /\ minNode' = minNode
          /\ maxNode' = maxNode]_vars

\* a query was made of a tree with a left and a right subtree, and found
\* what it asked for
QueriesReadOnlyWitness ==
    /\ lastOp = "contains"
    /\ lastRet = TRUE
    /\ root # NULL
    /\ nodes[root].left # NULL
    /\ nodes[root].right # NULL


\* new AVLTree(comparator): _root, _minNode and _maxNode are the null of
\* the prototype, and there is no node object yet
FreshTree ==
    [root |-> NULL, minNode |-> NULL, maxNode |-> NULL,
     nodes |-> [i \in NodeIds |-> NoNode]]

(***************************************************************************)
(* C39.  clear() on any reachable tree yields the empty state: root,       *)
(* cached min and cached max null, getCount() = 0, getHeight() = 0,        *)
(* contains(v) false for every v; and every sequence of operations applied *)
(* afterwards gives the same results as on a freshly constructed tree: the *)
(* tree after clear() is the freshly constructed one, and add, remove and  *)
(* the queries return from it what they return from a fresh tree.          *)
(***************************************************************************)
ClearIsFresh ==
    lastOp = "clear" =>
        /\ root = NULL /\ minNode = NULL /\ maxNode = NULL
        /\ getCount(Tree) = 0
        /\ getHeight(Tree) = 0
        /\ \A v \in Values : ~contains(Tree, v)
        /\ Tree = FreshTree
        /\ \A v \in Values :
              /\ add(Tree, v) = add(FreshTree, v)
              /\ remove(Tree, v) = remove(FreshTree, v)
        /\ \A n \in NthArgs : getNthValue(Tree, n) = getNthValue(FreshTree, n)
        /\ getMinimum(Tree) = getMinimum(FreshTree)
        /\ getMaximum(Tree) = getMaximum(FreshTree)
        /\ \A startValue \in StartArgs :
              /\ inOrderTraverse(Tree, {}, optional(startValue))
                    = inOrderTraverse(FreshTree, {}, optional(startValue))
              /\ reverseOrderTraverse(Tree, {}, optional(startValue))
                    = reverseOrderTraverse(FreshTree, {}, optional(startValue))

\* clear() was called on a tree that a remove had left with a wrong size
\* when it raised
ClearIsFreshWitness ==
    /\ lastOp = "clear"
    /\ throws > 0
    /\ root = NULL

=============================================================================
